---- MODULE Spec2Model ----
(***************************************************************************)
(* Verification model of the kkday-lang-key-finder browser extension:      *)
(* the content script's translation cache and its page-script messages,    *)
(* the two flatteners, the tiered substring scorer, SearchService and the  *)
(* SearchResult model.                                                     *)
(*                                                                         *)
(* Conventions.  A JavaScript string is a sequence of one-character        *)
(* strings.  A JavaScript value is a record [t, s, props]: t is the        *)
(* typeof-like tag ("string", "number", "function", "null", "array",       *)
(* "object"), s the characters of a string, props the own enumerable       *)
(* properties in enumeration order, each [k |-> name, v |-> value].        *)
(* Scores are counted in tenths: 10 stands for 1.0.                        *)
(***************************************************************************)
EXTENDS Integers, Sequences, FiniteSets, TLC

VARIABLES
  translationData,  \* ContentScript.translationData (browser content script)
  pageWorld,        \* globals the injected page script can see
  contentWorld,     \* what the content script's own extraction can see
  scripts,          \* per injected page script: "injected" | "ran" | "done"
  domLoading,       \* document.readyState === 'loading' at construction
  msgQueue,         \* window 'message' events posted and not yet delivered
  worldChanges,     \* how often the page has rewritten its globals
  passKinds,        \* history: kinds of result ("empty", "nonempty") that
                    \* the completed extraction passes have produced
  lastResponse,     \* the answer to the latest runtime message
  flatIn,           \* input of a flattening call
  flatOut,          \* its output
  flatPc,           \* "ready" | "flattened" | "converted"
  query,            \* the query of a search call
  options,          \* its options: [limit, minRelevance], 0 = not given
  records,          \* the list the search runs over
  searchOut,        \* the outcome of the call
  searchPc,         \* which entry point produced searchOut
  resultIn,         \* [item, score, refIndex] given to a SearchResult
  resultOut,        \* outcome of the construction
  resultPc,         \* "ready" | "constructed" | "converted"
  ctxDomain,        \* the domain argument of a PageContext static method
  ctxPath,          \* the pathname argument
  ctxOut,           \* what the method returned
  ctxPc,            \* which method produced ctxOut
  location,         \* window.location: [hostname, pathname]
  pageContext,      \* ContentScript.pageContext (content-script.js)
  globalScope,      \* [nuxt, initState]: window.__NUXT__, __INIT_STATE__
  lastExtractedData,\* ContentScript.lastExtractedData
  extractResponse,  \* the answer to the latest extractTranslationData
  strategyOut,      \* outcome of the latest strategy / path query
  locateOut,        \* outcome of the latest extractFrom... call
  readFrom,         \* the container the latest extraction took data from
  globalChanges,    \* how often the page has rewritten the two globals
  failedBefore,     \* history: an extraction request has failed
  pickerActive,     \* isPickerActive / isElementPickerActive, per script
  listeners,        \* document listeners installed, per script
  highlightedElement, \* highlightedElement / currentHighlighted
  highlights,       \* elements that carry the highlight style
  notification,     \* the picker notification / overlay is on the page
  lastEvent,        \* the latest DOM event or message handled
  picks,            \* selections made so far
  request,          \* the runtime message being delivered
  answers,          \* sendResponse calls made for it
  reply,            \* the latest value given to sendResponse
  handlerThrew,     \* the listener ended by throwing
  chromeStorage,    \* chrome.storage.local: [settings, stats]
  msgPc,            \* "idle" | "handled"
  receiver,         \* the part of the extension whose listener is observed
  heap,             \* the TranslationEntry objects alive, by reference
  issued,           \* the SearchResult objects created: item reference
  clicked,          \* the element a click selects: [isNull, textContent,
                    \* innerText]
  resolved,         \* the text the click handler hands on
  textPc,           \* which handler resolved the text
  nested,           \* a value handed to sanitizeData or flattenTranslationData
  walked,           \* what the walk over it returned: [value, entries]
  walkPc,           \* which walk produced it
  pickerScript,     \* the script whose picker is on the page
  isElementPickerActive,\* ContentScript.isElementPickerActive (content-script.js)
  documentListeners,\* the listeners content-script.js has on the document
  elementPickerCleanup,\* the closures elementPickerCleanup removes, 0 = null
  currentHighlighted,\* currentHighlighted of those closures
  marked,           \* elements that carry data-i18n-highlighted
  overlay,          \* the picker overlay is on the page
  selectionResult,  \* the latest elementSelected message sent
  domEvent,         \* the latest event content-script.js has handled
  instances,        \* content-script instances live in the page
  openings,         \* popup openings and context-menu searches in progress: [kind, pc]
  dispatched,       \* the latest message sent to the tab: [action, handlers]
  clock,            \* milliseconds since the popup opened
  inputValue,       \* value of the search box
  lastInputAt,      \* time of the latest input event, -1 before the first
  pendingTimers,    \* pending timers of the popup window
  debounceTimer,    \* PopupController.debounceTimer
  hasData,          \* extensionState.hasData
  searches,         \* performSearch calls made: [value, at, typedAt, typed, by, outcome]
  resultsCleared,   \* clearResults calls made by the debounce callback
  statCalls         \* incrementStat / updateStats calls: [kind, pc, snapshot]

cacheVars == <<translationData, pageWorld, contentWorld, scripts, domLoading,
               msgQueue, worldChanges, passKinds, lastResponse>>
flatVars == <<flatIn, flatOut, flatPc>>
searchVars == <<query, options, records, searchOut, searchPc>>
resultVars == <<resultIn, resultOut, resultPc>>
ctxVars == <<ctxDomain, ctxPath, ctxOut, ctxPc>>
extractVars == <<location, pageContext, globalScope, lastExtractedData,
                 extractResponse, strategyOut, locateOut, readFrom,
                 globalChanges, failedBefore>>
pickerVars == <<pickerActive, listeners, highlightedElement, highlights,
                notification, lastEvent, picks>>
msgVars == <<request, answers, reply, handlerThrew, chromeStorage, msgPc,
             receiver>>
recordVars == <<heap, issued>>
textVars == <<clicked, resolved, textPc>>
depthVars == <<nested, walked, walkPc>>
cpickVars == <<pickerScript, isElementPickerActive, documentListeners, elementPickerCleanup, currentHighlighted, marked, overlay, selectionResult, domEvent>>
instVars == <<instances, openings, dispatched>>
debVars == <<clock, inputValue, lastInputAt, pendingTimers, debounceTimer, hasData, searches, resultsCleared>>
statVars == <<statCalls>>
tailVars == <<recordVars, textVars, depthVars, cpickVars, instVars, debVars, statVars>>
earlyVars == <<cacheVars, flatVars, searchVars, resultVars, ctxVars,
               extractVars, pickerVars, msgVars>>
notRecordVars == <<earlyVars, textVars, depthVars, cpickVars, instVars, debVars, statVars>>
notTextVars == <<earlyVars, recordVars, depthVars, cpickVars, instVars, debVars, statVars>>
notDepthVars == <<earlyVars, recordVars, textVars, cpickVars, instVars, debVars, statVars>>
notCpickVars == <<earlyVars, recordVars, textVars, depthVars, instVars, debVars, statVars>>
notInstVars == <<earlyVars, recordVars, textVars, depthVars, cpickVars, debVars, statVars>>
notDebVars == <<earlyVars, recordVars, textVars, depthVars, cpickVars, instVars, statVars>>
notStatVars == <<earlyVars, recordVars, textVars, depthVars, cpickVars, instVars, debVars>>
laterVars == <<ctxVars, extractVars, pickerVars, msgVars, tailVars>>
vars == <<cacheVars, flatVars, searchVars, resultVars, laterVars>>

(***************************************************************************)
(* Bounds                                                                  *)
(***************************************************************************)
MaxDepth == 2          \* nesting depth of generated dictionaries
MaxWorldChanges == 1   \* rewrites of the page globals per page load
MaxRecords == 2        \* length of the record lists searched
MaxElements == 3       \* elements of the page the pointer can reach
MaxSelections == 1     \* element selections counted in the statistics
MaxObjects == 2        \* TranslationEntry objects alive at once
MaxIssued == 1         \* SearchResult objects created
MaxOpenings == 2       \* popup openings and context-menu searches per page
MaxTicks == 4          \* thirds of the debounce delay the clock runs for
MaxSearches == 2       \* performSearch calls recorded
MaxCalls == 3          \* incrementStat / updateStats calls per session

(***************************************************************************)
(* JavaScript strings                                                      *)
(***************************************************************************)
WhiteSpace == {" ", "\t"}

UpperCaseLetters ==
  <<"A", "B", "C", "D", "E", "H", "K", "M", "N", "O", "P", "R", "T", "U",
    "W", "Y", "Z">>
LowerCaseLetters ==
  <<"a", "b", "c", "d", "e", "h", "k", "m", "n", "o", "p", "r", "t", "u",
    "w", "y", "z">>

Lower(c) ==
  IF \E i \in 1..Len(UpperCaseLetters) : c = UpperCaseLetters[i]
  THEN LowerCaseLetters[CHOOSE i \in 1..Len(UpperCaseLetters) :
                          c = UpperCaseLetters[i]]
  ELSE c

toLowerCase(s) == [i \in 1..Len(s) |-> Lower(s[i])]

RECURSIVE trimStart(_)
trimStart(s) ==
  IF s # <<>> /\ Head(s) \in WhiteSpace THEN trimStart(Tail(s)) ELSE s

RECURSIVE trimEnd(_)
trimEnd(s) ==
  IF s # <<>> /\ s[Len(s)] \in WhiteSpace
  THEN trimEnd(SubSeq(s, 1, Len(s) - 1)) ELSE s

trim(s) == trimEnd(trimStart(s))

\* s.replace(/\s+/g, ' '), halving the string so that long texts stay within
\* the evaluator's recursion depth: a run of whitespace that spans the cut
\* gives one space on either side, and one of the two is dropped
RECURSIVE collapseSpaces(_)
collapseSpaces(s) ==
  IF s = <<>> THEN <<>>
  ELSE IF Len(s) = 1 THEN (IF s[1] \in WhiteSpace THEN <<" ">> ELSE s)
  ELSE LET half == Len(s) \div 2
           left == collapseSpaces(SubSeq(s, 1, half))
           right == collapseSpaces(SubSeq(s, half + 1, Len(s)))
       IN IF left[Len(left)] = " " /\ right[1] = " "
          THEN left \o Tail(right) ELSE left \o right

startsWith(s, sub) ==
  Len(sub) <= Len(s) /\ SubSeq(s, 1, Len(sub)) = sub

includes(s, sub) ==
  \E i \in 0..(Len(s) - Len(sub)) : SubSeq(s, i + 1, i + Len(sub)) = sub

(***************************************************************************)
(* JavaScript values                                                       *)
(***************************************************************************)
Str(s) == [t |-> "string", s |-> s, props |-> <<>>]
Num == [t |-> "number", s |-> <<>>, props |-> <<>>]
Fn == [t |-> "function", s |-> <<>>, props |-> <<>>]
Null == [t |-> "null", s |-> <<>>, props |-> <<>>]
Obj(props) == [t |-> "object", s |-> <<>>, props |-> props]
Arr(props) == [t |-> "array", s |-> <<>>, props |-> props]
P(k, v) == [k |-> k, v |-> v]

\* typeof v === 'object' (true of null and of arrays too)
TypeofObject(v) == v.t \in {"object", "array", "null"}

\* JavaScript truthiness of the values used here (numbers are non-zero)
Truthy(v) == ~(v.t = "null" \/ (v.t = "string" /\ v.s = <<>>))

Entry(k, v) == [key |-> k, val |-> v]

(***************************************************************************)
(* TranslationEntry (src/models/TranslationEntry.js)                       *)
(***************************************************************************)
\* validate(): TRUE when the constructor throws.  key must be a non-empty
\* string; val must be a string (the empty string is allowed).
TranslationEntryThrows(k, v) ==
  \/ ~Truthy(k) \/ k.t # "string"
  \/ v.t # "string"

(***************************************************************************)
(* Flattening                                                              *)
(***************************************************************************)
\* the inner closure `flatten(obj, currentPrefix)` of flattenTranslationData,
\* as a walk over the properties of obj in for-in order
RECURSIVE flatten(_, _)
flatten(props, currentPrefix) ==
  IF props = <<>> THEN <<>>
  ELSE LET key == Head(props).k
           value == Head(props).v
           fullKey == IF currentPrefix # <<>>
                      THEN currentPrefix \o <<".">> \o key
                      ELSE key
           here == IF value.t = "string"
                   THEN <<Entry(fullKey, value.s)>>
                   ELSE IF value.t = "object"
                        THEN flatten(value.props, fullKey)
                        ELSE <<>>
       IN here \o flatten(Tail(props), currentPrefix)

\* ContentScript.flattenTranslationData(data, prefix = '')
flattenTranslationData(data) ==
  IF TypeofObject(data) /\ data.t # "null"
  THEN flatten(data.props, <<>>)
  ELSE <<>>

\* DataExtractionService.convertToTranslationEntries(rawData)
RECURSIVE convertEntries(_)
convertEntries(props) ==
  IF props = <<>> THEN <<>>
  ELSE LET key == Head(props).k
           value == Head(props).v
           here == IF value.t = "string" /\ trim(value.s) # <<>>
                      /\ ~TranslationEntryThrows(Str(key), value)
                   THEN <<Entry(key, value.s)>>
                   ELSE <<>>
       IN here \o convertEntries(Tail(props))

convertToTranslationEntries(rawData) ==
  IF ~Truthy(rawData) \/ ~TypeofObject(rawData)
  THEN <<>>
  ELSE convertEntries(rawData.props)

\* sanitizeData(obj, maxDepth = 10, currentDepth = 0) of the page script.
\* An array index n is the property name String(n).
SanitizeMaxDepth == 10
IndexName(n) == <<<<"0", "1", "2", "3", "4", "5", "6", "7", "8", "9">>[n + 1]>>

RECURSIVE sanitizeData(_, _, _)
RECURSIVE sanitizeProps(_, _, _)
RECURSIVE sanitizeItems(_, _, _, _)
sanitizeData(obj, maxDepth, currentDepth) ==
  IF currentDepth > maxDepth THEN Null
  ELSE IF obj.t = "null" THEN obj
  ELSE IF ~TypeofObject(obj) THEN obj
  ELSE IF obj.t = "array"
       THEN Arr(sanitizeItems(obj.props, maxDepth, currentDepth, 0))
       ELSE Obj(sanitizeProps(obj.props, maxDepth, currentDepth))

\* obj.map(item => sanitizeData(item, ...)).filter(item => item !== null):
\* the surviving items are renumbered
sanitizeItems(items, maxDepth, currentDepth, next) ==
  IF items = <<>> THEN <<>>
  ELSE LET item == sanitizeData(Head(items).v, maxDepth, currentDepth + 1)
       IN IF item.t = "null"
          THEN sanitizeItems(Tail(items), maxDepth, currentDepth, next)
          ELSE <<P(IndexName(next), item)>>
               \o sanitizeItems(Tail(items), maxDepth, currentDepth, next + 1)

sanitizeProps(props, maxDepth, currentDepth) ==
  IF props = <<>> THEN <<>>
  ELSE LET key == Head(props).k
           value == Head(props).v
           sanitized == sanitizeData(value, maxDepth, currentDepth + 1)
           here == IF value.t = "function" THEN <<>>
                   ELSE IF TypeofObject(value) /\ value.t # "null"
                        THEN IF sanitized.t # "null"
                             THEN <<P(key, sanitized)>> ELSE <<>>
                        ELSE IF value.t \in {"string", "number"}
                             THEN <<P(key, value)>> ELSE <<>>
       IN here \o sanitizeProps(Tail(props), maxDepth, currentDepth)

(***************************************************************************)
(* Dictionaries the flatteners are run on                                  *)
(***************************************************************************)
ka == <<"a">>
kb == <<"b">>
StrLeaves == {Str(<<>>), Str(<<" ">>), Str(<<"x">>)}
Leaves == StrLeaves \cup {Num, Null, Fn, Arr(<<P(IndexName(0), Str(<<"x">>))>>)}

RECURSIVE Dicts(_)
Dicts(d) ==
  LET first == IF d = 0 THEN Leaves ELSE Leaves \cup Dicts(d - 1)
      second == Leaves \cup {Obj(<<P(ka, l)>>) : l \in StrLeaves}
  IN {Obj(<<>>)}
     \cup {Obj(<<P(ka, v)>>) : v \in first}
     \cup {Obj(<<P(ka, v), P(kb, w)>>) : v \in first, w \in second}

FlatInputs ==
  Dicts(MaxDepth)
  \cup {Null, Num, Str(<<"x">>),
        Arr(<<P(IndexName(0), Str(<<"x">>)), P(IndexName(1), Obj(<<P(ka, Str(<<"x">>))>>))>>)}

(***************************************************************************)
(* The tiered substring scorer of the content script and of the popup      *)
(***************************************************************************)
DefaultLimit == 20      \* options.limit || 20
ScoreExact == 10        \* score = 1.0
ScoreStartsWith == 8    \* score = 0.8
ScoreBothContain == 6   \* score = 0.6
ScoreOneContains == 4   \* score = 0.4
NoMatch == 0 - 1        \* the callback returned null

\* the .map callback of ContentScript.searchTranslations: the score of one
\* entry, or NoMatch
entryScore(entry, normalizedQuery) ==
  LET keyMatch == includes(toLowerCase(entry.key), normalizedQuery)
      valMatch == includes(toLowerCase(entry.val), normalizedQuery)
  IN IF ~keyMatch /\ ~valMatch THEN NoMatch
     ELSE IF toLowerCase(entry.key) = normalizedQuery
             \/ toLowerCase(entry.val) = normalizedQuery
          THEN ScoreExact
     ELSE IF startsWith(toLowerCase(entry.key), normalizedQuery)
             \/ startsWith(toLowerCase(entry.val), normalizedQuery)
          THEN ScoreStartsWith
     ELSE IF keyMatch /\ valMatch THEN ScoreBothContain
     ELSE ScoreOneContains

\* the .map callback of the popup's searchService.search
itemScore(item, normalizedQuery) ==
  LET keyMatch == includes(toLowerCase(item.key), normalizedQuery)
      valMatch == includes(toLowerCase(item.val), normalizedQuery)
  IN IF ~keyMatch /\ ~valMatch THEN NoMatch
     ELSE IF toLowerCase(item.key) = normalizedQuery
             \/ toLowerCase(item.val) = normalizedQuery
          THEN ScoreExact
     ELSE IF startsWith(toLowerCase(item.key), normalizedQuery)
             \/ startsWith(toLowerCase(item.val), normalizedQuery)
          THEN ScoreStartsWith
     ELSE IF keyMatch /\ valMatch THEN ScoreBothContain
     ELSE IF keyMatch \/ valMatch THEN ScoreOneContains
     ELSE 0

Hit(item, score) == [item |-> item, score |-> score]

\* (a, b) => b.score - a.score: TRUE when a sorts strictly before b
byScoreDescending(a, b) == b.score - a.score < 0

\* Array.prototype.sort is stable: x goes behind every element it does not
\* strictly precede
RECURSIVE insertDescending(_, _)
insertDescending(sorted, x) ==
  IF sorted = <<>> THEN <<x>>
  ELSE IF byScoreDescending(x, Head(sorted)) THEN <<x>> \o sorted
  ELSE <<Head(sorted)>> \o insertDescending(Tail(sorted), x)

RECURSIVE sortDescending(_)
sortDescending(list) ==
  IF list = <<>> THEN <<>>
  ELSE insertDescending(sortDescending(SubSeq(list, 1, Len(list) - 1)),
                        list[Len(list)])

slice(list, n) == SubSeq(list, 1, IF n < Len(list) THEN n ELSE Len(list))

\* .map(entry => ...).filter(result => result !== null) of the content script
RECURSIVE mapEntries(_, _)
mapEntries(data, normalizedQuery) ==
  IF data = <<>> THEN <<>>
  ELSE LET score == entryScore(Head(data), normalizedQuery)
       IN (IF score = NoMatch THEN <<>> ELSE <<Hit(Head(data), score)>>)
          \o mapEntries(Tail(data), normalizedQuery)

\* .map(item => ...).filter(result => result !== null) of the popup
RECURSIVE mapItems(_, _)
mapItems(data, normalizedQuery) ==
  IF data = <<>> THEN <<>>
  ELSE LET score == itemScore(Head(data), normalizedQuery)
       IN (IF score = NoMatch THEN <<>> ELSE <<Hit(Head(data), score)>>)
          \o mapItems(Tail(data), normalizedQuery)

\* ContentScript.searchTranslations(query, options); optLimit = 0 stands for
\* an absent (or zero) options.limit
searchTranslations(data, q, optLimit) ==
  IF q = <<>> \/ data.null THEN <<>>
  ELSE LET normalizedQuery == trim(toLowerCase(q))
           limit == IF optLimit # 0 THEN optLimit ELSE DefaultLimit
       IN slice(sortDescending(mapEntries(data.entries, normalizedQuery)),
                limit)

\* PopupController.searchService.search(query, options)
popupSearch(translations, q, optLimit) ==
  IF q = <<>> \/ translations.null THEN <<>>
  ELSE LET normalizedQuery == trim(toLowerCase(q))
           limit == IF optLimit # 0 THEN optLimit ELSE DefaultLimit
       IN slice(sortDescending(mapItems(translations.entries,
                                        normalizedQuery)), limit)

(***************************************************************************)
(* SearchResult (src/models/SearchResult.js)                               *)
(***************************************************************************)
\* A JavaScript value in a numeric position: t is its typeof ("number",
\* "string", "undefined") or "null"; n is a number in tenths; nan marks NaN.
NumVal(n) == [t |-> "number", n |-> n, nan |-> FALSE]
NaN == [t |-> "number", n |-> 0, nan |-> TRUE]
NullVal == [t |-> "null", n |-> 0, nan |-> FALSE]
Undefined == [t |-> "undefined", n |-> 0, nan |-> FALSE]
StringVal == [t |-> "string", n |-> 0, nan |-> FALSE]

\* x < c and x > c on JavaScript numbers: every comparison with NaN is false
Less(x, c) == ~x.nan /\ x.n < c
Greater(x, c) == ~x.nan /\ x.n > c
\* Number.isInteger(x)
IsInteger(x) == x.t = "number" /\ ~x.nan /\ x.n % 10 = 0

\* SearchResult.validate(): TRUE when it throws.  isEntry is
\* `this.item instanceof TranslationEntry`.
SearchResultThrows(isEntry, score, refIndex) ==
  \/ ~isEntry
  \/ score.t \in {"null", "undefined"}
  \/ score.t # "number"
  \/ Less(score, 0) \/ Greater(score, 10)
  \/ /\ refIndex.t \notin {"null", "undefined"}
     /\ refIndex.t # "number" \/ Less(refIndex, 0) \/ ~IsInteger(refIndex)

Failure == [ok |-> FALSE, item |-> Entry(<<>>, <<>>), score |-> NumVal(0),
            refIndex |-> NumVal(0)]
Success(item, score, refIndex) ==
  [ok |-> TRUE, item |-> item, score |-> score, refIndex |-> refIndex]

\* new SearchResult(item, score, refIndex = 0): the object, or Failure when
\* the constructor throws
NewSearchResult(isEntry, item, score, refIndex) ==
  LET index == IF refIndex.t = "undefined" THEN NumVal(0) ELSE refIndex
  IN IF SearchResultThrows(isEntry, score, index) THEN Failure
     ELSE Success(item, score, index)

\* SearchResult.fromFuseResult(fuseResult); hasItem is the truthiness of
\* fuseResult.item
fromFuseResult(hasItem, item, fuseScore, fuseRefIndex) ==
  IF ~hasItem THEN Failure
  ELSE IF TranslationEntryThrows(Str(item.key), Str(item.val)) THEN Failure
  ELSE LET score == IF fuseScore.t = "number" THEN fuseScore ELSE NumVal(0)
           refIndex == IF fuseRefIndex.t = "number" THEN fuseRefIndex
                       ELSE NumVal(0)
       IN NewSearchResult(TRUE, item, score, refIndex)

\* getRelevancePercentage(): Math.round((1 - score) * 100), score in tenths
getRelevancePercentage(score) == (10 - score) * 10

(***************************************************************************)
(* SearchService (src/unnamed/part_003)                                    *)
(***************************************************************************)
FuseThreshold == 3          \* threshold: 0.3
ServiceDefaultLimit == 10   \* options.limit || 10
FuseScores == {0, FuseThreshold}

\* (a, b) => a.score - b.score: the order Fuse returns with shouldSort: true
RECURSIVE insertAscending(_, _)
insertAscending(sorted, x) ==
  IF sorted = <<>> THEN <<x>>
  ELSE IF x.score < Head(sorted).score THEN <<x>> \o sorted
  ELSE <<Head(sorted)>> \o insertAscending(Tail(sorted), x)

RECURSIVE sortAscending(_)
sortAscending(list) ==
  IF list = <<>> THEN <<>>
  ELSE insertAscending(sortAscending(SubSeq(list, 1, Len(list) - 1)),
                       list[Len(list)])

RECURSIVE fuseHits(_, _, _)
fuseHits(data, scoreOf, i) ==
  IF i > Len(data) THEN <<>>
  ELSE (IF scoreOf[i] = NoMatch THEN <<>>
        ELSE <<[item |-> data[i], score |-> scoreOf[i], refIndex |-> i - 1]>>)
       \o fuseHits(data, scoreOf, i + 1)

\* this.fuseInstance.search(query, searchOptions): the library decides which
\* entries match and how well; all that is used of it here is that a score
\* lies in [0, threshold], that the hits come best first and that at most
\* limit of them are returned
FuseSearch(data, limit) ==
  { slice(sortAscending(fuseHits(data, scoreOf, 1)), limit) :
      scoreOf \in [1..Len(data) -> FuseScores \cup {NoMatch}] }

\* SearchResult.fromFuseResults(fuseResults), every hit converted
RECURSIVE fromFuseResults(_)
fromFuseResults(fuseResults) ==
  IF fuseResults = <<>> THEN <<>>
  ELSE LET r == Head(fuseResults)
       IN <<fromFuseResult(TRUE, r.item, NumVal(r.score),
                           NumVal(r.refIndex * 10))>>
          \o fromFuseResults(Tail(fuseResults))

RECURSIVE filterRelevance(_, _)
filterRelevance(results, minRelevance) ==
  IF results = <<>> THEN <<>>
  ELSE (IF getRelevancePercentage(Head(results).score.n) >= minRelevance
        THEN <<Head(results)>> ELSE <<>>)
       \o filterRelevance(Tail(results), minRelevance)

Thrown == [kind |-> "error", results |-> <<>>]
Returned(list) == [kind |-> "results", results |-> list]

\* SearchService.search(query, options) once the library has answered
\* fuseResults: what the call returns, or Thrown
search(q, opts, fuseResults) ==
  IF q = <<>> THEN Thrown
  ELSE LET searchResults == fromFuseResults(fuseResults)
       IN IF \E i \in 1..Len(searchResults) : ~searchResults[i].ok
          THEN Thrown
          ELSE IF opts.minRelevance # 0
               THEN Returned(filterRelevance(searchResults, opts.minRelevance))
               ELSE Returned(searchResults)

\* SearchService.preprocessQuery(query)
preprocessQuery(q) ==
  IF q = <<>> THEN <<>>
  ELSE toLowerCase(collapseSpaces(trim(q)))

\* SearchService.smartSearch(query, options)
smartSearch(q, opts, fuseResults) ==
  IF q = <<>> THEN Returned(<<>>)
  ELSE LET processedQuery == preprocessQuery(q)
       IN IF Len(processedQuery) = 0 THEN Returned(<<>>)
          ELSE search(processedQuery, opts, fuseResults)

(***************************************************************************)
(* The page script (src/content/page-script.js)                            *)
(***************************************************************************)
\* What the probes can find.  nuxt: the first __NUXT__.state entry whose key
\* names i18n data; next: the first truthy pageProps entry of checkKeys;
\* init: __INIT_STATE__.lang; glob: the first window property whose name
\* looks like i18n data.  Null stands for an absent global.
PageWorld(nuxt, next, init, glob) ==
  [nuxt |-> nuxt, next |-> next, init |-> init, glob |-> glob]

GlobMinKeys == 10     \* valueKeys.length > 10
GlobMaxKeys == 10000  \* valueKeys.length < 10000

\* value && typeof value === 'object' && Object.keys(value).length > 0
NonEmptyObject(value) ==
  Truthy(value) /\ TypeofObject(value) /\ Len(value.props) > 0

\* the test of the fourth probe of the page script
LooksLikeTranslations(value) ==
  /\ Truthy(value) /\ TypeofObject(value)
  /\ Len(value.props) > 0 /\ Len(value.props) < GlobMaxKeys
  /\ \E i \in 1..Len(value.props) :
       value.props[i].v.t = "string" \/ TypeofObject(value.props[i].v)
  /\ Len(value.props) > GlobMinKeys

\* extractTranslationData() of the page script: the probes in order
pageExtract(w) ==
  IF NonEmptyObject(w.nuxt) THEN w.nuxt
  ELSE IF Truthy(w.next) THEN w.next
  ELSE IF Truthy(w.init) THEN w.init
  ELSE IF LooksLikeTranslations(w.glob) THEN w.glob
  ELSE Null

\* the message posted right after injection:
\* data: translationData ? sanitizeData(translationData) : null
immediateMessage(w) ==
  LET found == pageExtract(w)
  IN IF Truthy(found) THEN sanitizeData(found, SanitizeMaxDepth, 0) ELSE Null

(***************************************************************************)
(* The browser content script (ContentScript in service-worker.js)         *)
(***************************************************************************)
NoData == [null |-> TRUE, entries |-> <<>>]
Data(entries) == [null |-> FALSE, entries |-> entries]

\* !this.translationData || this.translationData.length === 0
IsEmpty(td) == td.null \/ Len(td.entries) = 0

\* What the content script's own probes can find: next (Method 1), nuxt
\* (Method 2), win (Method 3: the data taken from the first i18n-like window
\* property), storage (Method 5: the first parsed storage item), script
\* (Method 6: the parsed inline state); throws: a probe raises, e.g. storage
\* access is denied.
ContentWorld(next, nuxt, win, storage, script, throws) ==
  [next |-> next, nuxt |-> nuxt, win |-> win, storage |-> storage,
   script |-> script, throws |-> throws]

\* the value of `data` at line 621 of extractTranslationData()
contentExtract(w) ==
  IF Truthy(w.next) THEN w.next
  ELSE IF NonEmptyObject(w.nuxt) THEN w.nuxt
  ELSE IF Truthy(w.win) THEN w.win
  ELSE IF NonEmptyObject(w.storage) THEN w.storage
  ELSE IF Truthy(w.script) THEN w.script
  ELSE Null

\* ContentScript.extractTranslationData(): the cache it leaves
extractTranslationData(td, w) ==
  IF w.throws
  THEN IF IsEmpty(td) THEN Data(<<>>) ELSE td
  ELSE LET data == contentExtract(w)
       IN IF Truthy(data)
          THEN IF IsEmpty(td) THEN Data(flattenTranslationData(data)) ELSE td
          ELSE IF IsEmpty(td) THEN Data(<<>>) ELSE td

\* the list one in-content pass produces, whatever is cached
extractedList(w) ==
  IF w.throws THEN <<>>
  ELSE IF Truthy(contentExtract(w))
       THEN flattenTranslationData(contentExtract(w)) ELSE <<>>

\* the 'message' listener of listenForPageData(): the cache it leaves
listenForPageData(td, data) ==
  IF Truthy(data) THEN Data(flattenTranslationData(data)) ELSE td

KindOf(list) == IF list = <<>> THEN "empty" ELSE "nonempty"

\* --- the worlds of one page ---
OneRec == Obj(<<P(ka, Str(<<"x">>))>>)
TwoRec == Obj(<<P(ka, Str(<<"x">>)), P(kb, Obj(<<P(ka, Str(<<"x">>))>>))>>)
NoStr == Obj(<<P(ka, Num), P(kb, Fn)>>)
StrX == Str(<<"x">>)
BigDict ==
  Obj([i \in 1..(GlobMinKeys + 1) |->
         P(<<"k">> \o IndexName((i - 1) \div 10) \o IndexName((i - 1) % 10),
           IF i = 1 THEN StrX ELSE Num)])

PageWorlds ==
  {PageWorld(n, x, i, Null) :
     n \in {Null, OneRec, NoStr}, x \in {Null, TwoRec}, i \in {Null, StrX}}
  \cup {PageWorld(Obj(<<>>), Null, Null, BigDict)}

NoContent == ContentWorld(Null, Null, Null, Null, Null, FALSE)
ContentWorlds ==
  {NoContent,
   [NoContent EXCEPT !.next = StrX],
   [NoContent EXCEPT !.nuxt = TwoRec],
   [NoContent EXCEPT !.win = NoStr],
   [NoContent EXCEPT !.storage = OneRec],
   [NoContent EXCEPT !.script = OneRec],
   [NoContent EXCEPT !.throws = TRUE]}

NoResponse == [action |-> "none", success |-> FALSE, data |-> <<>>]

(***************************************************************************)
(* PageContext (src/models/TranslationEntry.js, second part)               *)
(***************************************************************************)
\* the character class [a-z] under the i flag
IsLetter(c) ==
  \E i \in 1..Len(LowerCaseLetters) :
    c = LowerCaseLetters[i] \/ c = UpperCaseLetters[i]

\* the character class \d
IsDigit(c) == c \in {"0", "1", "2", "3", "4", "5", "6", "7", "8", "9"}

endsWith(s, suffix) ==
  Len(suffix) <= Len(s)
  /\ SubSeq(s, Len(s) - Len(suffix) + 1, Len(s)) = suffix

RootDomain == <<"k", "k", "d", "a", "y", ".", "c", "o", "m">>

\* static isKKdayDomain(domain)
isKKdayDomainIncludes(domain) ==
  IF ~Truthy(domain) \/ domain.t # "string" THEN FALSE
  ELSE LET normalizedDomain == toLowerCase(domain.s)
       IN \E k \in 1..Len(normalizedDomain) :
            SubSeq(normalizedDomain, k, Len(normalizedDomain)) = RootDomain
isKKdayDomain(domain) ==
  IF ~Truthy(domain) \/ domain.t # "string" THEN FALSE
  ELSE LET normalizedDomain == toLowerCase(domain.s)
       IN normalizedDomain = RootDomain
          \/ endsWith(normalizedDomain, <<".">> \o RootDomain)

\* the positions at which ^\/[a-z]{2}(-[a-z]{2})? can end in s: the optional
\* group is tried first and given up when the rest of the pattern fails
LangEnds(s) ==
  LET short == Len(s) >= 3 /\ s[1] = "/" /\ IsLetter(s[2]) /\ IsLetter(s[3])
      long == short /\ Len(s) >= 6 /\ s[4] = "-" /\ IsLetter(s[5])
              /\ IsLetter(s[6])
  IN <<IF long THEN {6} ELSE {}, IF short THEN {3} ELSE {}>>

ProductSegment == <<"/", "p", "r", "o", "d", "u", "c", "t", "/">>

\* \/product\/\d+ matched at position e + 1 of s, letters compared under the
\* i flag
ProductAt(s, e) ==
  /\ Len(s) >= e + Len(ProductSegment) + 1
  /\ toLowerCase(SubSeq(s, e + 1, e + Len(ProductSegment))) = ProductSegment
  /\ IsDigit(s[e + Len(ProductSegment) + 1])

\* static isProductPage(pathname):
\* /^\/[a-z]{2}(-[a-z]{2})?\/product\/\d+/i.test(pathname)
isProductPageAnyId(pathname) ==
  IF ~Truthy(pathname) \/ pathname.t # "string" THEN FALSE
  ELSE LET ends == LangEnds(pathname.s)
           SegmentAt(e) ==
             /\ Len(pathname.s) >= e + Len(ProductSegment)
             /\ toLowerCase(SubSeq(pathname.s, e + 1, e + Len(ProductSegment)))
                  = ProductSegment
       IN \/ \E e \in ends[1] : SegmentAt(e)
          \/ \E e \in ends[2] : SegmentAt(e)
isProductPage(pathname) ==
  IF ~Truthy(pathname) \/ pathname.t # "string" THEN FALSE
  ELSE LET ends == LangEnds(pathname.s)
       IN \/ \E e \in ends[1] : ProductAt(pathname.s, e)
          \/ \E e \in ends[2] : ProductAt(pathname.s, e)

\* (\/|$) at position e + 1 of s
SlashOrEnd(s, e) == Len(s) = e \/ s[e + 1] = "/"

\* static extractLanguage(pathname):
\* pathname.match(/^\/([a-z]{2}(-[a-z]{2})?)(\/|$)/i), first group
extractLanguage(pathname) ==
  IF ~Truthy(pathname) \/ pathname.t # "string" THEN <<>>
  ELSE LET s == pathname.s
           ends == LangEnds(s)
       IN IF \E e \in ends[1] : SlashOrEnd(s, e) THEN SubSeq(s, 2, 6)
          ELSE IF \E e \in ends[2] : SlashOrEnd(s, e) THEN SubSeq(s, 2, 3)
          ELSE <<>>

\* a PageContext object; NullContext stands for "no object was constructed"
Context(domain, pathname, isKKday, isProduct, language) ==
  [domain |-> domain, pathname |-> pathname, isKKdayDomain |-> isKKday,
   isProductPage |-> isProduct, language |-> language, isNull |-> FALSE]
NullContext ==
  [domain |-> <<>>, pathname |-> <<>>, isKKdayDomain |-> FALSE,
   isProductPage |-> FALSE, language |-> <<>>, isNull |-> TRUE]

\* validate(), for a domain and a pathname given as JavaScript values: TRUE
\* when the constructor throws (the two flags and the language come from the
\* static methods and have the right types)
PageContextThrows(domain, pathname) ==
  \/ ~Truthy(domain) \/ domain.t # "string"
  \/ ~Truthy(pathname) \/ pathname.t # "string"
  \/ ~startsWith(pathname.s, <<"/">>)

\* static fromLocation(location): `location.hostname || ''` and
\* `location.pathname || '/'`, then the constructor
fromLocation(hostname, pathname) ==
  LET domain == IF Truthy(hostname) THEN hostname ELSE Str(<<>>)
      path == IF Truthy(pathname) THEN pathname ELSE Str(<<"/">>)
  IN IF PageContextThrows(domain, path) THEN NullContext
     ELSE Context(domain.s, path.s, isKKdayDomain(domain),
                  isProductPage(path), extractLanguage(path))

\* outcome of a method that returns a value or throws
Raised == [threw |-> TRUE, value |-> <<>>]
Value(v) == [threw |-> FALSE, value |-> v]

StrategyNuxt == <<"n", "u", "x", "t">>
StrategyInitState == <<"i", "n", "i", "t", "_", "s", "t", "a", "t", "e">>

\* getDataSourceStrategy()
getDataSourceStrategyAnyDomain(ctx) ==
  Value(IF ctx.isProductPage THEN StrategyNuxt ELSE StrategyInitState)
getDataSourceStrategy(ctx) ==
  IF ~ctx.isKKdayDomain THEN Raised
  ELSE Value(IF ctx.isProductPage THEN StrategyNuxt ELSE StrategyInitState)

FallbackLanguage == <<"z", "h", "-", "t", "w">>
I18nKeyPrefix == <<"$", "s", "i", "1", "8", "n", "_">>
NuxtPathHead ==
  <<"_", "_", "N", "U", "X", "T", "_", "_", ".", "s", "t", "a", "t", "e",
    "[", "'">>
NuxtPathTail == <<"'", "]">>
InitStatePath ==
  <<"_", "_", "I", "N", "I", "T", "_", "S", "T", "A", "T", "E", "_", "_",
    ".", "l", "a", "n", "g">>

\* `$si18n_${language || 'zh-tw'}`
i18nKey(language) ==
  I18nKeyPrefix \o (IF language # <<>> THEN language ELSE FallbackLanguage)

\* `__NUXT__.state['${i18nKey}']`
NuxtPath(language) == NuxtPathHead \o i18nKey(language) \o NuxtPathTail

\* getDataSourcePath()
getDataSourcePath(ctx) ==
  LET strategy == getDataSourceStrategy(ctx)
  IN IF strategy.threw THEN Raised
     ELSE IF strategy.value = StrategyNuxt THEN Value(NuxtPath(ctx.language))
     ELSE Value(InitStatePath)

(***************************************************************************)
(* Inputs of the search and of the SearchResult calls                      *)
(***************************************************************************)
KeyPool == {<<"k">>, <<"b", "a">>}
ValPool == {<<"a">>, <<"A">>, <<" ", "a">>, <<"a", "b">>, <<"b", "a">>,
            <<"a", " ", " ", "b">>}
QueryPool == {<<>>, <<" ">>, <<"a">>, <<"A", " ">>, <<"a", " ", "b">>,
              <<"b">>}
RecordPool == {Entry(k, v) : k \in KeyPool, v \in ValPool}

RECURSIVE Lists(_, _)
Lists(S, n) ==
  IF n = 0 THEN {<<>>}
  ELSE Lists(S, n - 1)
       \cup {Append(l, x) : l \in {m \in Lists(S, n - 1) : Len(m) = n - 1},
                            x \in S}

OptionPool == {[limit |-> l, minRelevance |-> m] : l \in {0, 1}, m \in {0, 80}}

ScorePool ==
  {NumVal(n) : n \in (0 - 2)..12} \cup {NaN, NullVal, Undefined, StringVal}
RefIndexPool == {Undefined, NullVal, NumVal(0), NumVal(10), NumVal(0 - 10),
                 NumVal(5), NaN}
ItemPool == {Entry(<<"k">>, <<"a">>), Entry(<<"k">>, <<>>),
             Entry(<<>>, <<"a">>)}

(***************************************************************************)
(* DataExtractionService (src/services/PageContextService.js, second part) *)
(***************************************************************************)
StateName == <<"s", "t", "a", "t", "e">>
LangName == <<"l", "a", "n", "g">>

\* obj[name]: Null stands for undefined
RECURSIVE Lookup(_, _)
Lookup(props, name) ==
  IF props = <<>> THEN Null
  ELSE IF Head(props).k = name THEN Head(props).v
  ELSE Lookup(Tail(props), name)

Get(obj, name) ==
  IF obj.t \in {"object", "array"} THEN Lookup(obj.props, name) ELSE Null

\* window.__NUXT__ and window.__INIT_STATE__
GlobalScope(nuxt, initState) == [nuxt |-> nuxt, initState |-> initState]

\* outcome of extractFromNuxt / extractFromInitState: the returned
\* {data, path}, or the message of the Error thrown.  A message is the
\* sequence of its text fragments.
Located(data, path) ==
  [threw |-> FALSE, message |-> <<>>, data |-> data, path |-> path]
LocateError(message) ==
  [threw |-> TRUE, message |-> message, data |-> Null, path |-> <<>>]

\* static extractFromNuxt(pageContext, globalScope)
extractFromNuxt(ctx, scope) ==
  LET path == NuxtPath(ctx.language)
      state == Get(scope.nuxt, StateName)
      i18nData == Get(state, i18nKey(ctx.language))
  IN IF ~Truthy(scope.nuxt)
     THEN LocateError(<<"__NUXT__ global variable not found">>)
     ELSE IF ~Truthy(state)
     THEN LocateError(<<"__NUXT__.state not found">>)
     ELSE IF ~Truthy(i18nData)
     THEN LocateError(<<"Translation data not found at ">> \o path)
     ELSE Located(i18nData, path)

\* static extractFromInitState(globalScope)
extractFromInitStateAnyLang(scope) ==
  LET langData == Get(scope.initState, LangName)
  IN IF ~Truthy(scope.initState)
     THEN LocateError(<<"__INIT_STATE__ global variable not found">>)
     ELSE Located(langData, InitStatePath)
extractFromInitState(scope) ==
  LET langData == Get(scope.initState, LangName)
  IN IF ~Truthy(scope.initState)
     THEN LocateError(<<"__INIT_STATE__ global variable not found">>)
     ELSE IF ~Truthy(langData)
     THEN LocateError(<<"Translation data not found at ">> \o InitStatePath)
     ELSE Located(langData, InitStatePath)

\* the two shapes of an extraction response; fields lists the properties the
\* object has
ExtractFailure(error) ==
  [success |-> FALSE, data |-> <<>>, dataSource |-> <<>>, strategy |-> <<>>,
   count |-> 0, error |-> error, fields |-> {"success", "error"}]
ExtractSuccess(data, dataSource, strategy, count) ==
  [success |-> TRUE, data |-> data, dataSource |-> dataSource,
   strategy |-> strategy, count |-> count, error |-> <<>>,
   fields |-> {"success", "data", "dataSource", "strategy", "count"}]

\* static async extractTranslationData(pageContext, globalScope)
serviceExtractCountsProperties(ctx, scope) ==
  IF ctx.isNull
  THEN ExtractFailure(<<"Invalid page context provided">>)
  ELSE IF ~ctx.isKKdayDomain
  THEN ExtractFailure(<<"Cannot extract data from non-KKday domain">>)
  ELSE
    LET strategy == getDataSourceStrategy(ctx)
        result == IF strategy.value = StrategyNuxt
                  THEN extractFromNuxt(ctx, scope)
                  ELSE extractFromInitState(scope)
        translationEntries == convertToTranslationEntries(result.data)
    IN IF strategy.threw \/ result.threw
       THEN ExtractFailure(<<"Data extraction failed: ">>
                           \o (IF strategy.threw
                               THEN <<"Cannot determine data source for non-KKday domain">>
                               ELSE result.message))
       ELSE IF ~Truthy(result.data)
       THEN ExtractFailure(<<"No translation data found in global variables">>)
       ELSE IF Len(translationEntries) = 0
       THEN ExtractFailure(<<"No valid translation entries found">>)
       ELSE ExtractSuccess(translationEntries, result.path, strategy.value,
                           Len(result.data.props))
serviceExtract(ctx, scope) ==
  IF ctx.isNull
  THEN ExtractFailure(<<"Invalid page context provided">>)
  ELSE IF ~ctx.isKKdayDomain
  THEN ExtractFailure(<<"Cannot extract data from non-KKday domain">>)
  ELSE
    LET strategy == getDataSourceStrategy(ctx)
        result == IF strategy.value = StrategyNuxt
                  THEN extractFromNuxt(ctx, scope)
                  ELSE extractFromInitState(scope)
        translationEntries == convertToTranslationEntries(result.data)
    IN IF strategy.threw \/ result.threw
       THEN ExtractFailure(<<"Data extraction failed: ">>
                           \o (IF strategy.threw
                               THEN <<"Cannot determine data source for non-KKday domain">>
                               ELSE result.message))
       ELSE IF ~Truthy(result.data)
       THEN ExtractFailure(<<"No translation data found in global variables">>)
       ELSE IF Len(translationEntries) = 0
       THEN ExtractFailure(<<"No valid translation entries found">>)
       ELSE ExtractSuccess(translationEntries, result.path, strategy.value,
                           Len(translationEntries))

\* the container an extraction read: which global and which child of it
ReadNothing == [global |-> "none", child |-> <<>>]
ReadNuxt(key) == [global |-> "__NUXT__.state", child |-> key]
ReadInitState == [global |-> "__INIT_STATE__", child |-> LangName]

\* the container serviceExtract reads for ctx
serviceReads(ctx) ==
  IF ctx.isNull \/ ~ctx.isKKdayDomain THEN ReadNothing
  ELSE IF ctx.isProductPage THEN ReadNuxt(i18nKey(ctx.language))
  ELSE ReadInitState

(***************************************************************************)
(* ContentScript of src/content/content-script.js                          *)
(***************************************************************************)
\* TranslationEntry.toObject() on every entry
RECURSIVE toObjects(_)
toObjects(entries) ==
  IF entries = <<>> THEN <<>>
  ELSE <<Entry(Head(entries).key, Head(entries).val)>>
       \o toObjects(Tail(entries))

\* async extractTranslationData(): the response, and lastExtractedData after
contentScriptExtract(ctx, scope, cached) ==
  IF ctx.isNull
  THEN [response |->
          ExtractFailure(<<"Data extraction failed: ",
                           "Cannot read properties of null">>),
        cached |-> cached]
  ELSE IF ~ctx.isKKdayDomain
  THEN [response |->
          ExtractFailure(<<"Cannot extract data from non-KKday domain">>),
        cached |-> cached]
  ELSE LET result == serviceExtract(ctx, scope)
       IN IF result.success
          THEN [response |-> ExtractSuccess(toObjects(result.data),
                                            result.dataSource,
                                            result.strategy, result.count),
                cached |-> Data(result.data)]
          ELSE [response |-> result, cached |-> cached]

\* the page script's first and third probe over the same two globals: the
\* first __NUXT__.state entry whose key names i18n data and whose value is a
\* non-empty object, else __INIT_STATE__.lang
NamesI18n(key) ==
  \/ includes(key, <<"i", "1", "8", "n">>)
  \/ includes(key, LangName)
  \/ includes(key, <<"l", "o", "c", "a", "l", "e">>)
  \/ startsWith(key, <<"$", "s">>)

RECURSIVE nuxtProbe(_)
nuxtProbe(stateProps) ==
  IF stateProps = <<>> THEN [found |-> FALSE, key |-> <<>>, value |-> Null]
  ELSE IF NamesI18n(Head(stateProps).k) /\ NonEmptyObject(Head(stateProps).v)
  THEN [found |-> TRUE, key |-> Head(stateProps).k,
        value |-> Head(stateProps).v]
  ELSE nuxtProbe(Tail(stateProps))

\* what the four probes see when only the two globals exist
pageWorldOf(scope) ==
  LET state == Get(scope.nuxt, StateName)
  IN PageWorld(IF Truthy(state) /\ state.t \in {"object", "array"}
               THEN nuxtProbe(state.props).value ELSE Null,
               Null, Get(scope.initState, LangName), Null)

\* the container pageExtract takes its data from
pageScriptReads(scope) ==
  LET state == Get(scope.nuxt, StateName)
      w == pageWorldOf(scope)
  IN IF NonEmptyObject(w.nuxt) THEN ReadNuxt(nuxtProbe(state.props).key)
     ELSE IF Truthy(w.init) THEN ReadInitState
     ELSE ReadNothing

(***************************************************************************)
(* Element picker of the browser ContentScript                             *)
(* (src/background/service-worker.js, second part)                         *)
(***************************************************************************)

\* the element with id 'i18n-picker-notification'
NotificationElement == 0

PickerListeners == {"mouseover", "mouseout", "click", "keydown"}

\* the picker's fields and what it has put on the page: st.highlights is the
\* set of elements that carry the highlight styles (the keys of
\* originalStyles), st.notification the life of the picker notification
PickerState(active, registered, highlighted, styled, note) ==
  [isPickerActive |-> active, listeners |-> registered,
   highlightedElement |-> highlighted, highlights |-> styled,
   notification |-> note]

NoElement == 0 - 1

addHighlight(st, element) ==
  [st EXCEPT !.highlights = @ \cup {element}]

removeHighlight(st, element) ==
  [st EXCEPT !.highlights = @ \ {element}]

\* showPickerNotification(): an existing notification is replaced
showPickerNotification(st) == [st EXCEPT !.notification = "shown"]

\* hidePickerNotification(): the element fades and is removed 300 ms later
hidePickerNotification(st) ==
  [st EXCEPT !.notification = IF @ = "none" THEN "none" ELSE "fading"]

startElementPicker(st) ==
  LET shown == showPickerNotification([st EXCEPT !.isPickerActive = TRUE])
  IN [shown EXCEPT !.listeners = @ \cup PickerListeners]

stopElementPickerKeepsHighlight(st) ==
  LET hidden == hidePickerNotification([st EXCEPT !.isPickerActive = FALSE])
  IN [hidden EXCEPT !.listeners = @ \ PickerListeners,
                    !.highlightedElement = NoElement]
stopElementPicker(st) ==
  LET hidden == hidePickerNotification([st EXCEPT !.isPickerActive = FALSE])
      unlistened == [hidden EXCEPT !.listeners = @ \ PickerListeners]
  IN IF unlistened.highlightedElement # NoElement
     THEN [removeHighlight(unlistened, unlistened.highlightedElement)
             EXCEPT !.highlightedElement = NoElement]
     ELSE unlistened

toggleElementPicker(st) ==
  IF st.isPickerActive THEN stopElementPicker(st) ELSE startElementPicker(st)

handleMouseOver(st, element) ==
  IF ~st.isPickerActive THEN st
  ELSE IF element = st.highlightedElement THEN st
  ELSE LET cleared == IF st.highlightedElement # NoElement
                      THEN removeHighlight(st, st.highlightedElement)
                      ELSE st
       IN [addHighlight(cleared, element)
             EXCEPT !.highlightedElement = element]

handleMouseOut(st, element) ==
  IF ~st.isPickerActive THEN st
  ELSE IF element = st.highlightedElement
  THEN [removeHighlight(st, element) EXCEPT !.highlightedElement = NoElement]
  ELSE st

handleKeyDown(st, key) ==
  IF ~st.isPickerActive THEN st
  ELSE IF key = "Escape" THEN stopElementPicker(st)
  ELSE st

\* the index of the first entry find() accepts, 0 when there is none
FirstExact(entries, normalizedText) ==
  LET hits == {i \in 1..Len(entries) :
                 /\ entries[i].val # <<>>
                 /\ toLowerCase(trim(entries[i].val)) = normalizedText}
  IN IF hits = {} THEN 0 ELSE CHOOSE i \in hits : \A j \in hits : i <= j
FirstPartial(entries, normalizedText) ==
  LET hits == {i \in 1..Len(entries) :
                 /\ entries[i].val # <<>>
                 /\ includes(toLowerCase(entries[i].val), normalizedText)}
  IN IF hits = {} THEN 0 ELSE CHOOSE i \in hits : \A j \in hits : i <= j
FirstReverse(entries, normalizedText) ==
  LET hits == {i \in 1..Len(entries) :
                 /\ entries[i].val # <<>>
                 /\ includes(normalizedText, toLowerCase(entries[i].val))}
  IN IF hits = {} THEN 0 ELSE CHOOSE i \in hits : \A j \in hits : i <= j

NoTextMatch == [found |-> FALSE, key |-> <<>>, tier |-> "none"]
TextMatch(entry, tier) == [found |-> TRUE, key |-> entry.key, tier |-> tier]

findTranslationByText(td, text) ==
  IF td.null \/ text = <<>> THEN NoTextMatch
  ELSE LET normalizedText == toLowerCase(trim(text))
           exact == FirstExact(td.entries, normalizedText)
           partial == FirstPartial(td.entries, normalizedText)
           reverse == FirstReverse(td.entries, normalizedText)
       IN IF exact # 0 THEN TextMatch(td.entries[exact], "exact")
          ELSE IF partial # 0 THEN TextMatch(td.entries[partial], "partial")
          ELSE IF reverse # 0 THEN TextMatch(td.entries[reverse], "reverse")
          ELSE NoTextMatch

\* the result notification a click shows
NoResult == [shown |-> FALSE, success |-> FALSE, noText |-> FALSE, key |-> <<>>]
ResultNotification(success, noText, key) ==
  [shown |-> TRUE, success |-> success, noText |-> noText, key |-> key]

\* handleClick(event): the picker after the click and the notification shown
handleClick(st, element, textContent, td, shownBefore) ==
  IF ~st.isPickerActive THEN [st |-> st, result |-> shownBefore]
  ELSE IF element = NotificationElement
  THEN [st |-> st, result |-> shownBefore]
  ELSE LET text == trim(textContent)
           matchResult == findTranslationByText(td, text)
       IN [st |-> stopElementPicker(st),
           result |-> IF text = <<>>
                      THEN ResultNotification(FALSE, TRUE, <<>>)
                      ELSE IF matchResult.found
                      THEN ResultNotification(TRUE, FALSE, matchResult.key)
                      ELSE ResultNotification(FALSE, FALSE, <<>>)]

(***************************************************************************)
(* Runtime messages: BackgroundService.handleMessage, the handleMessage of *)
(* src/content/content-script.js and the listener of the browser           *)
(* ContentScript                                                           *)
(***************************************************************************)

\* the value a request carries in the property its action reads (text,
\* query, settings, stats or result); success is the value of its success
\* property when it is an object
Payload(t, s, success) == [t |-> t, s |-> s, success |-> success]
NoPayload == Payload("undefined", <<>>, FALSE)

PayloadTruthy(p) ==
  p.t # "undefined" /\ ~(p.t = "string" /\ p.s = <<>>)

\* a message: isNull is the message null, which has no action
Request(to, isNull, action, payload) ==
  [to |-> to, isNull |-> isNull, action |-> action, payload |-> payload]
NoRequest == Request("none", FALSE, "none", NoPayload)

\* a response: success is "true", "false" or "absent" (no such property)
Reply(success, error) == [success |-> success, error |-> error]
NoReply == Reply("absent", <<>>)
ReplySuccess == Reply("true", <<>>)
ReplyFailure(error) == Reply("false", error)

\* what running a handler gives: the sendResponse calls in order, whether an
\* exception left the listener, and the state after
Handled(replies, threw, state) ==
  [replies |-> replies, threw |-> threw, state |-> state]

\* chrome.storage.local: settings is the stored value (undefined when never
\* set), stats the stored statistics object
Storage(settings, stats) == [settings |-> settings, stats |-> stats]
NoStats == [stored |-> FALSE, selections |-> 0, merged |-> {}]
EmptyStorage == Storage(NoPayload, NoStats)

\* the own enumerable keys {...value} copies
SpreadKeys(p) ==
  IF p.t = "string" THEN {i \in 1..Len(p.s) : TRUE}
  ELSE IF p.t = "object" THEN {0}
  ELSE {}

handleClipboardCopy(text) ==
  IF ~PayloadTruthy(text) \/ text.t # "string"
  THEN ReplyFailure(<<"Invalid text provided for clipboard copy">>)
  ELSE ReplySuccess

updateSettings(store, newSettings) ==
  IF newSettings.t = "undefined" THEN store
  ELSE [store EXCEPT !.settings = newSettings]

updateStats(store, newStats) ==
  [store EXCEPT !.stats = [stored |-> TRUE, selections |-> @.selections,
                           merged |-> @.merged \cup SpreadKeys(newStats)]]

incrementStat(store) ==
  [store EXCEPT !.stats = [stored |-> TRUE, selections |-> @.selections + 1,
                           merged |-> @.merged]]

\* handleElementSelection(result, tab): its own try/catch swallows the
\* TypeError of an absent result
handleElementSelection(store, result) ==
  IF result.t = "object" /\ result.success THEN incrementStat(store)
  ELSE store

UnknownAction(action) == <<"Unknown action: ", action>>
NoActionOfNull == <<"Cannot read properties of null (reading 'action')">>

\* BackgroundService.handleMessage(request, sender, sendResponse)
backgroundHandleMessage(req, store) ==
  IF req.isNull THEN Handled(<<ReplyFailure(NoActionOfNull)>>, FALSE, store)
  ELSE IF req.action = "copyToClipboard"
  THEN Handled(<<handleClipboardCopy(req.payload)>>, FALSE, store)
  ELSE IF req.action = "elementSelected"
  THEN Handled(<<ReplySuccess>>, FALSE,
               handleElementSelection(store, req.payload))
  ELSE IF req.action = "updateStats"
  THEN Handled(<<ReplySuccess>>, FALSE, updateStats(store, req.payload))
  ELSE IF req.action = "getSettings"
  THEN Handled(<<NoReply>>, FALSE, store)
  ELSE IF req.action = "updateSettings"
  THEN Handled(<<ReplySuccess>>, FALSE, updateSettings(store, req.payload))
  ELSE Handled(<<ReplyFailure(UnknownAction(req.action))>>, FALSE, store)

\* the picker of src/content/content-script.js
activateElementPicker(st) ==
  IF st.isPickerActive THEN st
  ELSE [st EXCEPT !.isPickerActive = TRUE,
                  !.notification = "shown",
                  !.listeners = @ \cup PickerListeners]

deactivateElementPicker(st) ==
  IF ~st.isPickerActive THEN st
  ELSE LET cleaned == IF st.highlightedElement # NoElement
                      THEN removeHighlight(st, st.highlightedElement)
                      ELSE st
       IN [cleaned EXCEPT !.isPickerActive = FALSE,
                          !.notification = "none",
                          !.listeners = @ \ PickerListeners,
                          !.highlightedElement = NoElement]

\* getPageContext(): the context's toObject(), or a failure when there is
\* no context
getPageContext(ctx) ==
  IF ctx.isNull
  THEN ReplyFailure(<<"Failed to get page context: ",
                 "Cannot read properties of null (reading 'toObject')">>)
  ELSE NoReply

ContentState(cached, st) == [cached |-> cached, picker |-> st]

\* ContentScript.handleMessage of src/content/content-script.js
contentHandleMessage(req, ctx, scope, state) ==
  IF req.isNull THEN Handled(<<ReplyFailure(NoActionOfNull)>>, FALSE, state)
  ELSE IF req.action = "extractTranslationData"
  THEN LET extracted == contentScriptExtract(ctx, scope, state.cached)
       IN Handled(<<IF extracted.response.success THEN ReplySuccess
                    ELSE ReplyFailure(extracted.response.error)>>, FALSE,
                  ContentState(extracted.cached, state.picker))
  ELSE IF req.action = "getPageContext"
  THEN Handled(<<getPageContext(ctx)>>, FALSE, state)
  ELSE IF req.action = "activateElementPicker"
  THEN Handled(<<ReplySuccess>>, FALSE,
               ContentState(state.cached,
                            activateElementPicker(state.picker)))
  ELSE IF req.action = "deactivateElementPicker"
  THEN Handled(<<ReplySuccess>>, FALSE,
               ContentState(state.cached,
                            deactivateElementPicker(state.picker)))
  ELSE IF req.action = "selectPageElement"
  THEN Handled(<<ReplySuccess>>, FALSE, state)
  ELSE Handled(<<ReplyFailure(UnknownAction(req.action))>>, FALSE, state)

BrowserState(td, st, shown) == [td |-> td, picker |-> st, result |-> shown]

\* case 'searchFromContextMenu' of the browser listener: query.substring and
\* text.trim throw a TypeError when the query is not a string
searchFromContextMenu(queryValue, world, state) ==
  LET td == IF IsEmpty(state.td)
            THEN extractTranslationData(state.td, world) ELSE state.td
      extracted == [state EXCEPT !.td = td]
  IN IF PayloadTruthy(queryValue) /\ ~td.null
     THEN IF queryValue.t # "string" THEN Handled(<<>>, TRUE, extracted)
          ELSE LET matchResult == findTranslationByText(td, queryValue.s)
               IN Handled(<<ReplySuccess>>, FALSE,
                          [extracted EXCEPT !.result =
                             IF matchResult.found
                             THEN ResultNotification(TRUE, FALSE,
                                                     matchResult.key)
                             ELSE ResultNotification(FALSE, FALSE, <<>>)])
     ELSE IF queryValue.t # "string" THEN Handled(<<>>, TRUE, extracted)
          ELSE Handled(<<ReplySuccess>>, FALSE,
                       [extracted EXCEPT !.result =
                          ResultNotification(FALSE, FALSE, <<>>)])

\* the chrome.runtime.onMessage listener of the browser ContentScript
browserHandleMessage(req, world, state) ==
  IF req.isNull THEN Handled(<<>>, TRUE, state)
  ELSE IF req.action = "getTranslations"
  THEN Handled(<<ReplySuccess>>, FALSE,
               [state EXCEPT !.td = IF IsEmpty(@)
                                    THEN extractTranslationData(@, world)
                                    ELSE @])
  ELSE IF req.action = "toggleElementPicker"
  THEN Handled(<<ReplySuccess>>, FALSE,
               [state EXCEPT !.picker = toggleElementPicker(@)])
  ELSE IF req.action = "searchFromContextMenu"
  THEN searchFromContextMenu(req.payload, world, state)
  ELSE IF req.action \in {"ping", "debugInfo"}
  THEN Handled(<<ReplySuccess>>, FALSE, state)
  ELSE Handled(<<ReplyFailure(<<"Unknown action">>)>>, FALSE, state)

(***************************************************************************)
(* TranslationEntry and SearchResult as objects: fields are ordinary       *)
(* writable properties and SearchResult keeps the reference it is given    *)
(***************************************************************************)

\* a TranslationEntry object: its two own properties, as JavaScript values
EntryObject(k, v) == [key |-> k, val |-> v]

\* new TranslationEntry(key, val): the heap after; a throwing validate()
\* leaves no object behind
newTranslationEntry(objects, k, v) ==
  IF TranslationEntryThrows(k, v) THEN objects
  ELSE Append(objects, EntryObject(k, v))

\* a SearchResult object: item is the reference stored by the constructor;
\* key and val record what the item held when the result was created
ResultObject(ref, entry) == [item |-> ref, key |-> entry.key, val |-> entry.val]

\* new SearchResult(item, score): this.item = item
newSearchResult(results, objects, ref) ==
  Append(results, ResultObject(ref, objects[ref]))

\* entry.key = value / entry.val = value on an object that is not frozen
assignKey(objects, ref, value) == [objects EXCEPT ![ref].key = value]
assignVal(objects, ref, value) == [objects EXCEPT ![ref].val = value]

(***************************************************************************)
(* The text of a selected element                                          *)
(***************************************************************************)
InnerTextThreshold == 100
MaxTextLength == 200
Ellipsis == <<".", ".", ".">>

Element(isNull, textContent, innerText) ==
  [isNull |-> isNull, textContent |-> textContent, innerText |-> innerText]

\* ContentScript.extractTextFromElement(element) of content-script.js
extractTextFromElement(el) ==
  IF el.isNull THEN <<>>
  ELSE LET own == IF trim(el.textContent) # <<>> THEN trim(el.textContent)
                  ELSE <<>>
           rendered == IF Len(own) > InnerTextThreshold
                          /\ trim(el.innerText) # <<>>
                       THEN trim(el.innerText) ELSE own
           text == trim(collapseSpaces(rendered))
       IN IF Len(text) > MaxTextLength
          THEN SubSeq(text, 1, MaxTextLength) \o Ellipsis
          ELSE text

\* const text = element.textContent.trim() of the browser handleClick: the
\* text given to findTranslationByText
clickText(el) == trim(el.textContent)

(***************************************************************************)
(* Element picker of src/content/content-script.js, with the listeners it  *)
(* registers told apart: every call of setupElementClickListener creates   *)
(* four new closures, and a closure is removed only by the cleanup function *)
(* created with it                                                         *)
(***************************************************************************)
NoClosure == 0
Listener(type, closure) == [type |-> type, closure |-> closure]

\* the picker's fields and what it has put on the page: st.cleanup is
\* elementPickerCleanup (the closures it removes), st.highlighted the
\* currentHighlighted of those closures, st.marked the elements that carry
\* data-i18n-highlighted
ContentPicker(active, registered, cleanup, highlighted, styled, shown) ==
  [active |-> active, listeners |-> registered, cleanup |-> cleanup,
   highlighted |-> highlighted, marked |-> styled, overlay |-> shown]

\* the closures of one more call: the least number none of the registered
\* listeners carries
newClosure(st) ==
  LET used == {l.closure : l \in st.listeners}
  IN CHOOSE n \in 1..(Cardinality(used) + 1) :
       n \notin used /\ \A m \in 1..(n - 1) : m \in used

\* this.elementPickerCleanup = this.setupElementClickListener()
setupElementClickListener(st) ==
  LET closure == newClosure(st)
  IN [st EXCEPT !.listeners = @ \cup {Listener(type, closure) :
                                        type \in PickerListeners},
                !.cleanup = closure,
                !.highlighted = NoElement]

\* the cleanup function setupElementClickListener returned
runCleanup(st) ==
  [st EXCEPT !.marked = IF st.highlighted # NoElement
                        THEN @ \ {st.highlighted} ELSE @,
             !.listeners = {l \in @ : l.closure # st.cleanup},
             !.highlighted = NoElement]

csActivateElementPickerUnguarded(st) ==
  setupElementClickListener([st EXCEPT !.active = TRUE, !.overlay = TRUE])
\* ContentScript.activateElementPicker()
csActivateElementPicker(st) ==
  IF st.active THEN st
  ELSE setupElementClickListener([st EXCEPT !.active = TRUE,
                                            !.overlay = TRUE])

\* ContentScript.deactivateElementPicker()
csDeactivateElementPicker(st) ==
  IF ~st.active THEN st
  ELSE LET off == [st EXCEPT !.active = FALSE, !.overlay = FALSE]
       IN IF off.cleanup # NoClosure
          THEN [runCleanup(off) EXCEPT !.cleanup = NoClosure]
          ELSE off

\* mouseoverHandler(event)
mouseoverHandler(st, target) ==
  IF ~st.active THEN st
  ELSE LET cleared == IF st.highlighted # NoElement
                      THEN st.marked \ {st.highlighted} ELSE st.marked
       IN [st EXCEPT !.highlighted = target,
                     !.marked = cleared \cup {target}]

\* mouseoutHandler(_event): nothing is changed
mouseoutHandler(st) == st

\* keyHandler(event)
keyHandler(st, key) ==
  IF key = "Escape" /\ st.active THEN csDeactivateElementPicker(st) ELSE st

\* the 'elementSelected' message sendElementSelectionResult sends
NoSelection == [sent |-> FALSE, success |-> FALSE, text |-> <<>>]
SelectionResult(success, text) ==
  [sent |-> TRUE, success |-> success, text |-> text]

\* ContentScript.handleElementClick(element): the picker afterwards and the
\* message sent
handleElementClick(st, el) ==
  LET text == extractTextFromElement(el)
  IN IF text = <<>> \/ Len(trim(text)) = 0
     THEN [st |-> st, result |-> SelectionResult(FALSE, <<>>)]
     ELSE [st |-> csDeactivateElementPicker(st),
           result |-> SelectionResult(TRUE, trim(text))]

\* clickHandler(event)
clickHandler(st, el, sentBefore) ==
  IF ~st.active THEN [st |-> st, result |-> sentBefore]
  ELSE handleElementClick(st, el)

(***************************************************************************)
(* The popup's search box (src/popup/popup.js): debounced input            *)
(***************************************************************************)
DebounceDelay == 300     \* setTimeout(..., 300)
MinQueryLength == 2      \* value.length >= 2

\* a pending timer of the popup window: the value its callback has captured
\* and the time it is due
Timer(id, value, due) == [id |-> id, value |-> value, due |-> due]
NoTimer == 0

\* the popup's debounce state: st.timers are the window's pending timers,
\* st.debounceTimer is this.debounceTimer
Debounce(pending, id) == [timers |-> pending, debounceTimer |-> id]

\* clearTimeout(id): a pending timer with that id is dropped
clearTimeout(pending, id) == {t \in pending : t.id # id}

\* the id setTimeout returns: the least one no pending timer carries
newTimerId(pending) ==
  LET used == {t.id : t \in pending}
  IN CHOOSE n \in 1..(Cardinality(used) + 1) :
       n \notin used /\ \A m \in 1..(n - 1) : m \in used

handleSearchInputKeepsTimer(st, value, time) ==
  LET id == newTimerId(st.timers)
  IN Debounce(st.timers \cup {Timer(id, value, time + DebounceDelay)}, id)
\* PopupController.handleSearchInput(value) at the given time
handleSearchInput(st, value, time) ==
  LET pending == clearTimeout(st.timers, st.debounceTimer)
      id == newTimerId(pending)
  IN Debounce(pending \cup {Timer(id, value, time + DebounceDelay)}, id)

\* PopupController.performSearch(query = null): what the call does
performSearch(queryArg, boxValue, loaded) ==
  LET searchQuery == IF queryArg # <<>> THEN queryArg ELSE boxValue
  IN IF trim(searchQuery) = <<>> THEN "no query"
     ELSE IF ~loaded THEN "no data"
     ELSE "searched"

\* the callback of the debounce timer: "performSearch", "clearResults" or
\* "nothing"
debounceCallback(value) ==
  IF Len(value) >= MinQueryLength THEN "performSearch"
  ELSE IF Len(value) = 0 THEN "clearResults"
  ELSE "nothing"

(***************************************************************************)
(* Inputs of the PageContext calls                                         *)
(***************************************************************************)
Concat3(A, B, C) == {a \o b \o c : a \in A, b \in B, c \in C}

DomainPool ==
  {Str(s) : s \in Concat3({<<>>, <<"w", ".">>, <<"n", "o", "t">>, <<".">>},
                          {RootDomain,
                           <<"K", "K", "d", "a", "y", ".", "C", "O", "M">>,
                           <<"k", "k", "d", "a", "y", ".", "c", "o">>},
                          {<<>>, <<".", "t", "w">>})}
  \cup {Str(<<>>), Null, Num}

PathPool ==
  {Str(s \o t) :
     s \in Concat3({<<"/", "z", "h">>, <<"/", "z", "h", "-", "t", "w">>,
                    <<"/", "Z", "H", "-", "t", "w">>, <<>>,
                    <<"/", "z", "h", "-", "t">>},
                   {ProductSegment,
                    <<"/", "p", "r", "o", "d", "u", "c", "t", "s", "/">>,
                    <<"/", "p", "r", "o", "d", "u", "c", "t">>,
                    <<"/", "P", "R", "O", "D", "U", "C", "T", "/">>},
                   {<<>>, <<"1">>, <<"a">>, <<"1", "a">>, <<"1", "2">>}),
     t \in {<<>>, <<"/", "d">>, <<"?", "r">>}}
  \cup {Str(<<>>), Str(<<"/">>), Null, Num}

(***************************************************************************)
(* Pages the content script of content-script.js is loaded on              *)
(***************************************************************************)
HostPool ==
  {<<"w", ".">> \o RootDomain, RootDomain, <<"n", "o", "t">> \o RootDomain}
RoutePool ==
  {<<"/", "z", "h", "-", "t", "w">> \o ProductSegment \o <<"1">>,
   <<"/", "e", "n">> \o ProductSegment \o <<"1", "2", "/", "d">>,
   <<"/", "z", "h", "-", "t", "w", "/", "h", "e", "p">>,
   <<"/">>}
LocationPool == {[hostname |-> h, pathname |-> p] : h \in HostPool,
                                                    p \in RoutePool}

NestedOnly == Obj(<<P(ka, OneRec)>>)
Mixed == Obj(<<P(ka, StrX), P(kb, Num), P(<<"c">>, Str(<<" ">>))>>)

NuxtWith(language, dict) ==
  Obj(<<P(StateName, Obj(<<P(i18nKey(language), dict)>>))>>)
NuxtPool ==
  {Null, Obj(<<>>), NuxtWith(FallbackLanguage, OneRec),
   NuxtWith(FallbackLanguage, Mixed), NuxtWith(<<"e", "n">>, OneRec),
   NuxtWith(FallbackLanguage, NestedOnly), NuxtWith(FallbackLanguage, Null)}
InitStateWith(dict) == Obj(<<P(LangName, dict)>>)
InitStatePool ==
  {Null, Obj(<<>>), InitStateWith(TwoRec), InitStateWith(StrX)}
ScopePool == {GlobalScope(n, i) : n \in NuxtPool, i \in InitStatePool}

NoExtractResponse == [ExtractFailure(<<>>) EXCEPT !.fields = {}]
NoStrategy == [kind |-> "none", threw |-> FALSE, value |-> <<>>]
NoLocate == [kind |-> "none", result |-> LocateError(<<>>)]
NoRead == [by |-> "none", container |-> ReadNothing]

(***************************************************************************)
(* Initial states                                                          *)
(***************************************************************************)
NoOutput == [flag |-> FALSE, text |-> <<>>, context |-> NullContext]

CtxIdle ==
  /\ ctxDomain = Null
  /\ ctxPath = Null
  /\ ctxOut = NoOutput
  /\ ctxPc = "idle"

ExtractIdle ==
  /\ location = [hostname |-> <<>>, pathname |-> <<>>]
  /\ pageContext = NullContext
  /\ globalScope = GlobalScope(Null, Null)
  /\ lastExtractedData = NoData
  /\ extractResponse = NoExtractResponse
  /\ strategyOut = NoStrategy
  /\ locateOut = NoLocate
  /\ readFrom = NoRead
  /\ globalChanges = 0
  /\ failedBefore = FALSE

\* the latest event and whether the picker was active when it arrived
NoEvent ==
  [type |-> "none", key |-> "none", target |-> NoElement, active |-> FALSE]

PickerIdle ==
  /\ pickerActive = FALSE
  /\ listeners = {}
  /\ highlightedElement = NoElement
  /\ highlights = {}
  /\ notification = "none"
  /\ lastEvent = NoEvent
  /\ picks = NoResult

MsgIdle ==
  /\ request = NoRequest
  /\ answers = 0
  /\ reply = NoReply
  /\ handlerThrew = FALSE
  /\ chromeStorage = EmptyStorage
  /\ msgPc = "idle"
  /\ receiver = "none"

RecordIdle ==
  /\ heap = <<>>
  /\ issued = <<>>

TextIdle ==
  /\ clicked = [isNull |-> TRUE, textContent |-> <<>>, innerText |-> <<>>]
  /\ resolved = <<>>
  /\ textPc = "idle"

DepthIdle ==
  /\ nested = Null
  /\ walked = [value |-> Null, entries |-> <<>>]
  /\ walkPc = "idle"

CpickIdle ==
  /\ pickerScript = "none"
  /\ isElementPickerActive = FALSE
  /\ documentListeners = {}
  /\ elementPickerCleanup = NoClosure
  /\ currentHighlighted = NoElement
  /\ marked = {}
  /\ overlay = FALSE
  /\ selectionResult = NoSelection
  /\ domEvent = NoEvent

InstIdle ==
  /\ instances = 0
  /\ openings = <<>>
  /\ dispatched = [action |-> "none", handlers |-> 0]

DebIdle ==
  /\ clock = 0
  /\ inputValue = <<>>
  /\ lastInputAt = 0 - 1
  /\ pendingTimers = {}
  /\ debounceTimer = NoTimer
  /\ hasData = FALSE
  /\ searches = <<>>
  /\ resultsCleared = 0

StatIdle ==
  /\ statCalls = <<>>

TailIdle == RecordIdle /\ TextIdle /\ DepthIdle /\ CpickIdle /\ InstIdle /\ DebIdle /\ StatIdle

LaterIdle == CtxIdle /\ ExtractIdle /\ PickerIdle /\ MsgIdle /\ TailIdle

CacheIdle ==
  /\ translationData = NoData
  /\ pageWorld = PageWorld(Null, Null, Null, Null)
  /\ contentWorld = NoContent
  /\ scripts = <<>>
  /\ domLoading = FALSE
  /\ msgQueue = <<>>
  /\ worldChanges = 0
  /\ passKinds = {}
  /\ lastResponse = NoResponse

FlatIdle ==
  /\ flatIn = Null
  /\ flatOut = <<>>
  /\ flatPc = "idle"

SearchIdle ==
  /\ query = <<>>
  /\ options = [limit |-> 0, minRelevance |-> 0]
  /\ records = <<>>
  /\ searchOut = Returned(<<>>)
  /\ searchPc = "idle"

ResultIdle ==
  /\ resultIn = [isEntry |-> FALSE, hasItem |-> FALSE,
                 item |-> Entry(<<>>, <<>>), score |-> Undefined,
                 refIndex |-> Undefined]
  /\ resultOut = Failure
  /\ resultPc = "idle"

EarlyIdle ==
  /\ CacheIdle /\ FlatIdle /\ SearchIdle /\ ResultIdle
  /\ CtxIdle /\ ExtractIdle /\ PickerIdle /\ MsgIdle
NotRecordIdle == EarlyIdle /\ TextIdle /\ DepthIdle /\ CpickIdle /\ InstIdle /\ DebIdle /\ StatIdle
NotTextIdle == EarlyIdle /\ RecordIdle /\ DepthIdle /\ CpickIdle /\ InstIdle /\ DebIdle /\ StatIdle
NotDepthIdle == EarlyIdle /\ RecordIdle /\ TextIdle /\ CpickIdle /\ InstIdle /\ DebIdle /\ StatIdle
NotCpickIdle == EarlyIdle /\ RecordIdle /\ TextIdle /\ DepthIdle /\ InstIdle /\ DebIdle /\ StatIdle
NotInstIdle == EarlyIdle /\ RecordIdle /\ TextIdle /\ DepthIdle /\ CpickIdle /\ DebIdle /\ StatIdle
NotDebIdle == EarlyIdle /\ RecordIdle /\ TextIdle /\ DepthIdle /\ CpickIdle /\ InstIdle /\ StatIdle
NotStatIdle == EarlyIdle /\ RecordIdle /\ TextIdle /\ DepthIdle /\ CpickIdle /\ InstIdle /\ DebIdle

\* the content script right after `new ContentScript()`: the listeners are
\* installed and the first page script is injected but has not run yet
Init ==
  /\ translationData = NoData
  /\ pageWorld \in PageWorlds
  /\ contentWorld \in ContentWorlds
  /\ scripts = <<"injected">>
  /\ domLoading \in BOOLEAN
  /\ msgQueue = <<>>
  /\ worldChanges = 0
  /\ passKinds = {}
  /\ lastResponse = NoResponse
  /\ FlatIdle /\ SearchIdle /\ ResultIdle /\ LaterIdle

(***************************************************************************)
(* The content script and the page script of one page                      *)
(***************************************************************************)
\* document 'DOMContentLoaded': init() injects the page script once more
DOMContentLoaded ==
  /\ domLoading
  /\ domLoading' = FALSE
  /\ scripts' = Append(scripts, "injected")
  /\ UNCHANGED <<translationData, pageWorld, contentWorld, msgQueue,
                 worldChanges, passKinds, lastResponse>>
  /\ UNCHANGED <<flatVars, searchVars, resultVars, laterVars>>

\* an injected page script runs: immediate extraction, postMessage, and the
\* 2000 ms timer is set
PageScriptRuns ==
  \E i \in 1..Len(scripts) :
    /\ scripts[i] = "injected"
    /\ scripts' = [scripts EXCEPT ![i] = "ran"]
    /\ msgQueue' = Append(msgQueue, immediateMessage(pageWorld))
    /\ UNCHANGED <<translationData, pageWorld, contentWorld, domLoading,
                   worldChanges, passKinds, lastResponse>>
    /\ UNCHANGED <<flatVars, searchVars, resultVars, laterVars>>

\* the setTimeout callback of a page script: a message only if data is found
DelayedExtraction ==
  \E i \in 1..Len(scripts) :
    /\ scripts[i] = "ran"
    /\ scripts' = [scripts EXCEPT ![i] = "done"]
    /\ LET delayedData == pageExtract(pageWorld)
       IN msgQueue' = IF Truthy(delayedData)
                      THEN Append(msgQueue,
                                  sanitizeData(delayedData, SanitizeMaxDepth, 0))
                      ELSE msgQueue
    /\ UNCHANGED <<translationData, pageWorld, contentWorld, domLoading,
                   worldChanges, passKinds, lastResponse>>
    /\ UNCHANGED <<flatVars, searchVars, resultVars, laterVars>>

\* the window 'message' listener receives the oldest posted message
ReceivePageData ==
  /\ msgQueue # <<>>
  /\ LET data == Head(msgQueue)
     IN /\ translationData' = listenForPageData(translationData, data)
        /\ passKinds' = passKinds \cup {KindOf(flattenTranslationData(data))}
  /\ msgQueue' = Tail(msgQueue)
  /\ UNCHANGED <<pageWorld, contentWorld, scripts, domLoading, worldChanges,
                 lastResponse>>
  /\ UNCHANGED <<flatVars, searchVars, resultVars, laterVars>>

\* the MutationObserver callback
MutationObserved ==
  /\ IsEmpty(translationData)
  /\ translationData' = extractTranslationData(translationData, contentWorld)
  /\ passKinds' = passKinds \cup {KindOf(extractedList(contentWorld))}
  /\ UNCHANGED <<pageWorld, contentWorld, scripts, domLoading, msgQueue,
                 worldChanges, lastResponse>>
  /\ UNCHANGED <<flatVars, searchVars, resultVars, laterVars>>

\* runtime message 'getTranslations' from the popup
GetTranslations ==
  /\ LET after == IF IsEmpty(translationData)
                  THEN extractTranslationData(translationData, contentWorld)
                  ELSE translationData
     IN /\ translationData' = after
        /\ lastResponse' = [action |-> "getTranslations", success |-> TRUE,
                            data |-> after.entries]
  /\ passKinds' = IF IsEmpty(translationData)
                  THEN passKinds \cup {KindOf(extractedList(contentWorld))}
                  ELSE passKinds
  /\ UNCHANGED <<pageWorld, contentWorld, scripts, domLoading, msgQueue,
                 worldChanges>>
  /\ UNCHANGED <<flatVars, searchVars, resultVars, laterVars>>

\* runtime message 'searchFromContextMenu': the cache is filled like for
\* getTranslations; the match is shown in a notification and the answer is
\* {success: true}
SearchFromContextMenu ==
  /\ translationData' = IF IsEmpty(translationData)
                        THEN extractTranslationData(translationData,
                                                    contentWorld)
                        ELSE translationData
  /\ lastResponse' = [action |-> "searchFromContextMenu", success |-> TRUE,
                      data |-> <<>>]
  /\ passKinds' = IF IsEmpty(translationData)
                  THEN passKinds \cup {KindOf(extractedList(contentWorld))}
                  ELSE passKinds
  /\ UNCHANGED <<pageWorld, contentWorld, scripts, domLoading, msgQueue,
                 worldChanges>>
  /\ UNCHANGED <<flatVars, searchVars, resultVars, laterVars>>

\* the page rewrites its globals (data that loads after the first pass)
PageChanges ==
  /\ worldChanges < MaxWorldChanges
  /\ worldChanges' = worldChanges + 1
  /\ pageWorld' \in PageWorlds \ {pageWorld}
  /\ UNCHANGED <<translationData, contentWorld, scripts, domLoading, msgQueue,
                 passKinds, lastResponse>>
  /\ UNCHANGED <<flatVars, searchVars, resultVars, laterVars>>

\* the page rewrites what the content script's probes see
ContentChanges ==
  /\ worldChanges < MaxWorldChanges
  /\ worldChanges' = worldChanges + 1
  /\ contentWorld' \in ContentWorlds \ {contentWorld}
  /\ UNCHANGED <<translationData, pageWorld, scripts, domLoading, msgQueue,
                 passKinds, lastResponse>>
  /\ UNCHANGED <<flatVars, searchVars, resultVars, laterVars>>

Next ==
  \/ DOMContentLoaded
  \/ PageScriptRuns
  \/ DelayedExtraction
  \/ ReceivePageData
  \/ MutationObserved
  \/ GetTranslations
  \/ SearchFromContextMenu
  \/ PageChanges
  \/ ContentChanges

Spec == Init /\ [][Next]_vars

(***************************************************************************)
(* Flattening calls                                                        *)
(***************************************************************************)
InitFlatten ==
  /\ flatIn \in FlatInputs
  /\ flatOut = <<>>
  /\ flatPc = "ready"
  /\ CacheIdle /\ SearchIdle /\ ResultIdle /\ LaterIdle

\* the browser content script flattens a dictionary
FlattenTranslationData ==
  /\ flatPc = "ready"
  /\ flatOut' = flattenTranslationData(flatIn)
  /\ flatPc' = "flattened"
  /\ UNCHANGED flatIn
  /\ UNCHANGED <<cacheVars, searchVars, resultVars, laterVars>>

\* DataExtractionService converts a dictionary
ConvertToTranslationEntries ==
  /\ flatPc = "ready"
  /\ flatOut' = convertToTranslationEntries(flatIn)
  /\ flatPc' = "converted"
  /\ UNCHANGED flatIn
  /\ UNCHANGED <<cacheVars, searchVars, resultVars, laterVars>>

NextFlatten ==
  \/ FlattenTranslationData
  \/ ConvertToTranslationEntries

SpecFlatten == InitFlatten /\ [][NextFlatten]_vars

(***************************************************************************)
(* Search calls                                                            *)
(***************************************************************************)
InitSearch ==
  /\ query \in QueryPool
  /\ options \in OptionPool
  /\ records \in Lists(RecordPool, MaxRecords)
  /\ searchOut = Returned(<<>>)
  /\ searchPc = "ready"
  /\ CacheIdle /\ FlatIdle /\ ResultIdle /\ LaterIdle

\* window.ContentScriptAPI.searchTranslations(query, options)
ContentSearch ==
  /\ searchPc = "ready"
  /\ searchOut' = Returned(searchTranslations(Data(records), query,
                                              options.limit))
  /\ searchPc' = "content"
  /\ UNCHANGED <<query, options, records>>
  /\ UNCHANGED <<cacheVars, flatVars, resultVars, laterVars>>

\* the popup's searchService.search(query, options)
PopupSearch ==
  /\ searchPc = "ready"
  /\ searchOut' = Returned(popupSearch(Data(records), query, options.limit))
  /\ searchPc' = "popup"
  /\ UNCHANGED <<query, options, records>>
  /\ UNCHANGED <<cacheVars, flatVars, resultVars, laterVars>>

\* SearchService.search(query, options), the strict entry point
StrictSearch ==
  /\ searchPc = "ready"
  /\ \E fuseResults \in
        FuseSearch(records, IF options.limit # 0 THEN options.limit
                            ELSE ServiceDefaultLimit) :
       searchOut' = search(query, options, fuseResults)
  /\ searchPc' = "strict"
  /\ UNCHANGED <<query, options, records>>
  /\ UNCHANGED <<cacheVars, flatVars, resultVars, laterVars>>

\* SearchService.smartSearch(query, options)
SmartSearch ==
  /\ searchPc = "ready"
  /\ \E fuseResults \in
        FuseSearch(records, IF options.limit # 0 THEN options.limit
                            ELSE ServiceDefaultLimit) :
       searchOut' = smartSearch(query, options, fuseResults)
  /\ searchPc' = "smart"
  /\ UNCHANGED <<query, options, records>>
  /\ UNCHANGED <<cacheVars, flatVars, resultVars, laterVars>>

NextSearch ==
  \/ ContentSearch
  \/ PopupSearch
  \/ StrictSearch
  \/ SmartSearch

SpecSearch == InitSearch /\ [][NextSearch]_vars

(***************************************************************************)
(* SearchResult constructions                                              *)
(***************************************************************************)
InitResult ==
  /\ resultIn \in {[isEntry |-> e, hasItem |-> h, item |-> it, score |-> sc,
                    refIndex |-> r] :
                     e \in BOOLEAN, h \in BOOLEAN, it \in ItemPool,
                     sc \in ScorePool, r \in RefIndexPool}
  /\ resultOut = Failure
  /\ resultPc = "ready"
  /\ CacheIdle /\ FlatIdle /\ SearchIdle /\ LaterIdle

\* new SearchResult(item, score, refIndex)
ConstructSearchResult ==
  /\ resultPc = "ready"
  /\ resultOut' = NewSearchResult(resultIn.isEntry, resultIn.item,
                                  resultIn.score, resultIn.refIndex)
  /\ resultPc' = "constructed"
  /\ UNCHANGED resultIn
  /\ UNCHANGED <<cacheVars, flatVars, searchVars, laterVars>>

\* SearchResult.fromFuseResult({item, score, refIndex})
ConvertFuseResult ==
  /\ resultPc = "ready"
  /\ resultOut' = fromFuseResult(resultIn.hasItem, resultIn.item,
                                 resultIn.score, resultIn.refIndex)
  /\ resultPc' = "converted"
  /\ UNCHANGED resultIn
  /\ UNCHANGED <<cacheVars, flatVars, searchVars, laterVars>>

NextResult ==
  \/ ConstructSearchResult
  \/ ConvertFuseResult

SpecResult == InitResult /\ [][NextResult]_vars

(***************************************************************************)
(* PageContext calls                                                       *)
(***************************************************************************)
InitContext ==
  /\ ctxDomain \in DomainPool
  /\ ctxPath \in PathPool
  /\ ctxOut = NoOutput
  /\ ctxPc = "ready"
  /\ CacheIdle /\ FlatIdle /\ SearchIdle /\ ResultIdle
  /\ ExtractIdle /\ PickerIdle /\ MsgIdle
  /\ TailIdle

\* PageContext.isKKdayDomain(domain)
IsKKdayDomain ==
  /\ ctxPc = "ready"
  /\ ctxOut' = [NoOutput EXCEPT !.flag = isKKdayDomain(ctxDomain)]
  /\ ctxPc' = "isKKdayDomain"
  /\ UNCHANGED <<ctxDomain, ctxPath>>
  /\ UNCHANGED <<cacheVars, flatVars, searchVars, resultVars, tailVars, extractVars,
                 pickerVars, msgVars>>

\* PageContext.isProductPage(pathname)
IsProductPage ==
  /\ ctxPc = "ready"
  /\ ctxOut' = [NoOutput EXCEPT !.flag = isProductPage(ctxPath)]
  /\ ctxPc' = "isProductPage"
  /\ UNCHANGED <<ctxDomain, ctxPath>>
  /\ UNCHANGED <<cacheVars, flatVars, searchVars, resultVars, tailVars, extractVars,
                 pickerVars, msgVars>>

\* PageContext.extractLanguage(pathname)
ExtractLanguage ==
  /\ ctxPc = "ready"
  /\ ctxOut' = [NoOutput EXCEPT !.text = extractLanguage(ctxPath)]
  /\ ctxPc' = "extractLanguage"
  /\ UNCHANGED <<ctxDomain, ctxPath>>
  /\ UNCHANGED <<cacheVars, flatVars, searchVars, resultVars, tailVars, extractVars,
                 pickerVars, msgVars>>

\* PageContext.fromLocation({hostname, pathname})
FromLocation ==
  /\ ctxPc = "ready"
  /\ ctxOut' = [NoOutput EXCEPT !.context = fromLocation(ctxDomain, ctxPath)]
  /\ ctxPc' = "fromLocation"
  /\ UNCHANGED <<ctxDomain, ctxPath>>
  /\ UNCHANGED <<cacheVars, flatVars, searchVars, resultVars, tailVars, extractVars,
                 pickerVars, msgVars>>

NextContext ==
  \/ IsKKdayDomain
  \/ IsProductPage
  \/ ExtractLanguage
  \/ FromLocation

SpecContext == InitContext /\ [][NextContext]_vars

(***************************************************************************)
(* The content script of content-script.js on one page                     *)
(***************************************************************************)
\* right after `new ContentScript()`: init() has analysed window.location
InitExtract ==
  /\ location \in LocationPool
  /\ pageContext = fromLocation(Str(location.hostname),
                                Str(location.pathname))
  /\ globalScope \in ScopePool
  /\ lastExtractedData = NoData
  /\ extractResponse = NoExtractResponse
  /\ strategyOut = NoStrategy
  /\ locateOut = NoLocate
  /\ readFrom = NoRead
  /\ globalChanges = 0
  /\ failedBefore = FALSE
  /\ CacheIdle /\ FlatIdle /\ SearchIdle /\ ResultIdle
  /\ CtxIdle /\ PickerIdle /\ MsgIdle
  /\ TailIdle

\* runtime message 'extractTranslationData': handleMessage answers with what
\* extractTranslationData() returns
ExtractRequest ==
  /\ ~pageContext.isNull
  /\ LET out == contentScriptExtract(pageContext, globalScope,
                                     lastExtractedData)
     IN /\ extractResponse' = out.response
        /\ lastExtractedData' = out.cached
        /\ failedBefore' = (failedBefore \/ ~out.response.success)
        /\ readFrom' = [by |-> "service",
                        container |-> IF out.response.success
                                      THEN serviceReads(pageContext)
                                      ELSE ReadNothing]
  /\ strategyOut' = NoStrategy
  /\ locateOut' = NoLocate
  /\ UNCHANGED <<location, pageContext, globalScope, globalChanges>>
  /\ UNCHANGED <<cacheVars, flatVars, searchVars, resultVars, tailVars, ctxVars,
                 pickerVars, msgVars>>

\* pageContext.getDataSourceStrategy()
GetDataSourceStrategy ==
  /\ ~pageContext.isNull
  /\ LET out == getDataSourceStrategy(pageContext)
     IN strategyOut' = [kind |-> "strategy", threw |-> out.threw,
                        value |-> out.value]
  /\ extractResponse' = NoExtractResponse
  /\ locateOut' = NoLocate
  /\ readFrom' = NoRead
  /\ UNCHANGED <<location, pageContext, globalScope, lastExtractedData,
                 globalChanges, failedBefore>>
  /\ UNCHANGED <<cacheVars, flatVars, searchVars, resultVars, tailVars, ctxVars,
                 pickerVars, msgVars>>

\* pageContext.getDataSourcePath()
GetDataSourcePath ==
  /\ ~pageContext.isNull
  /\ LET out == getDataSourcePath(pageContext)
     IN strategyOut' = [kind |-> "path", threw |-> out.threw,
                        value |-> out.value]
  /\ extractResponse' = NoExtractResponse
  /\ locateOut' = NoLocate
  /\ readFrom' = NoRead
  /\ UNCHANGED <<location, pageContext, globalScope, lastExtractedData,
                 globalChanges, failedBefore>>
  /\ UNCHANGED <<cacheVars, flatVars, searchVars, resultVars, tailVars, ctxVars,
                 pickerVars, msgVars>>

\* DataExtractionService.extractFromNuxt(pageContext, window)
LocateNuxt ==
  /\ ~pageContext.isNull
  /\ locateOut' = [kind |-> "nuxt",
                   result |-> extractFromNuxt(pageContext, globalScope)]
  /\ extractResponse' = NoExtractResponse
  /\ strategyOut' = NoStrategy
  /\ readFrom' = NoRead
  /\ UNCHANGED <<location, pageContext, globalScope, lastExtractedData,
                 globalChanges, failedBefore>>
  /\ UNCHANGED <<cacheVars, flatVars, searchVars, resultVars, tailVars, ctxVars,
                 pickerVars, msgVars>>

\* DataExtractionService.extractFromInitState(window)
LocateInitState ==
  /\ ~pageContext.isNull
  /\ locateOut' = [kind |-> "init_state",
                   result |-> extractFromInitState(globalScope)]
  /\ extractResponse' = NoExtractResponse
  /\ strategyOut' = NoStrategy
  /\ readFrom' = NoRead
  /\ UNCHANGED <<location, pageContext, globalScope, lastExtractedData,
                 globalChanges, failedBefore>>
  /\ UNCHANGED <<cacheVars, flatVars, searchVars, resultVars, tailVars, ctxVars,
                 pickerVars, msgVars>>

\* the injected page script extracts from the same page (it is injected on
\* pages of the target domain only)
PageScriptExtracts ==
  /\ ~pageContext.isNull /\ pageContext.isKKdayDomain
  /\ readFrom' = [by |-> "pageScript",
                  container |-> pageScriptReads(globalScope)]
  /\ extractResponse' = NoExtractResponse
  /\ strategyOut' = NoStrategy
  /\ locateOut' = NoLocate
  /\ UNCHANGED <<location, pageContext, globalScope, lastExtractedData,
                 globalChanges, failedBefore>>
  /\ UNCHANGED <<cacheVars, flatVars, searchVars, resultVars, tailVars, ctxVars,
                 pickerVars, msgVars>>

\* the page rewrites __NUXT__ / __INIT_STATE__
GlobalsChange ==
  /\ globalChanges < MaxWorldChanges
  /\ globalChanges' = globalChanges + 1
  /\ globalScope' \in ScopePool \ {globalScope}
  /\ extractResponse' = NoExtractResponse
  /\ strategyOut' = NoStrategy
  /\ locateOut' = NoLocate
  /\ readFrom' = NoRead
  /\ UNCHANGED <<location, pageContext, lastExtractedData, failedBefore>>
  /\ UNCHANGED <<cacheVars, flatVars, searchVars, resultVars, tailVars, ctxVars,
                 pickerVars, msgVars>>

NextExtract ==
  \/ ExtractRequest
  \/ GetDataSourceStrategy
  \/ GetDataSourcePath
  \/ LocateNuxt
  \/ LocateInitState
  \/ PageScriptExtracts
  \/ GlobalsChange

SpecExtract == InitExtract /\ [][NextExtract]_vars

(***************************************************************************)
(* The element picker: toggle message and document events                  *)
(***************************************************************************)

Elements == 1..MaxElements

\* textContent of the page's elements: a blank one, one whose text is a
\* cached value in other case and padding, the others unknown to the cache
ElementText(element) ==
  IF element = 1 THEN <<" ">>
  ELSE IF element = 2 THEN <<" ", "X">>
  ELSE <<"q">>

PickerCachePool == {NoData, Data(<<Entry(ka, <<"x">>)>>)}

Picker ==
  PickerState(pickerActive, listeners, highlightedElement, highlights,
              notification)

SetPicker(st) ==
  /\ pickerActive' = st.isPickerActive
  /\ listeners' = st.listeners
  /\ highlightedElement' = st.highlightedElement
  /\ highlights' = st.highlights
  /\ notification' = st.notification

\* the elements an event can target: the notification only while it exists
Targets ==
  Elements \cup (IF notification = "none" THEN {} ELSE {NotificationElement})

Event(type, key, target) ==
  [type |-> type, key |-> key, target |-> target, active |-> pickerActive]

InitPicker ==
  /\ translationData \in PickerCachePool
  /\ pageWorld = PageWorld(Null, Null, Null, Null)
  /\ contentWorld = NoContent
  /\ scripts = <<>>
  /\ domLoading = FALSE
  /\ msgQueue = <<>>
  /\ worldChanges = 0
  /\ passKinds = {}
  /\ lastResponse = NoResponse
  /\ PickerIdle
  /\ FlatIdle /\ SearchIdle /\ ResultIdle
  /\ CtxIdle /\ ExtractIdle /\ MsgIdle
  /\ TailIdle

\* runtime message 'toggleElementPicker'
ToggleElementPicker ==
  /\ SetPicker(toggleElementPicker(Picker))
  /\ lastEvent' = Event("toggleElementPicker", "none", NoElement)
  /\ UNCHANGED picks
  /\ UNCHANGED <<cacheVars, flatVars, searchVars, resultVars, tailVars, ctxVars,
                 extractVars, msgVars>>

\* a 'mouseover' event on the document: the handler runs while registered
MouseOver ==
  \E element \in Targets :
    /\ SetPicker(IF "mouseover" \in listeners
                 THEN handleMouseOver(Picker, element) ELSE Picker)
    /\ lastEvent' = Event("mouseover", "none", element)
    /\ UNCHANGED picks
    /\ UNCHANGED <<cacheVars, flatVars, searchVars, resultVars, tailVars, ctxVars,
                   extractVars, msgVars>>

MouseOut ==
  \E element \in Targets :
    /\ SetPicker(IF "mouseout" \in listeners
                 THEN handleMouseOut(Picker, element) ELSE Picker)
    /\ lastEvent' = Event("mouseout", "none", element)
    /\ UNCHANGED picks
    /\ UNCHANGED <<cacheVars, flatVars, searchVars, resultVars, tailVars, ctxVars,
                   extractVars, msgVars>>

Click ==
  \E element \in Targets :
    LET after == IF "click" \in listeners
                 THEN handleClick(Picker, element, ElementText(element),
                                  translationData, picks)
                 ELSE [st |-> Picker, result |-> picks]
    IN /\ SetPicker(after.st)
       /\ picks' = after.result
       /\ lastEvent' = Event("click", "none", element)
       /\ UNCHANGED <<cacheVars, flatVars, searchVars, resultVars, tailVars, ctxVars,
                      extractVars, msgVars>>

KeyDown ==
  \E key \in {"Escape", "Enter"} :
    /\ SetPicker(IF "keydown" \in listeners
                 THEN handleKeyDown(Picker, key) ELSE Picker)
    /\ lastEvent' = Event("keydown", key, NoElement)
    /\ UNCHANGED picks
    /\ UNCHANGED <<cacheVars, flatVars, searchVars, resultVars, tailVars, ctxVars,
                   extractVars, msgVars>>

\* the 300 ms timer of hidePickerNotification removes the faded element
NotificationRemoved ==
  /\ notification = "fading"
  /\ notification' = "none"
  /\ UNCHANGED <<pickerActive, listeners, highlightedElement, highlights,
                 lastEvent, picks>>
  /\ UNCHANGED <<cacheVars, flatVars, searchVars, resultVars, tailVars, ctxVars,
                 extractVars, msgVars>>

NextPicker ==
  \/ ToggleElementPicker
  \/ MouseOver
  \/ MouseOut
  \/ Click
  \/ KeyDown
  \/ NotificationRemoved

SpecPicker == InitPicker /\ [][NextPicker]_vars

(***************************************************************************)
(* Runtime messages reaching the background service and the content script *)
(***************************************************************************)

PayloadPool ==
  {NoPayload, Payload("string", <<>>, FALSE), Payload("string", <<"x">>, FALSE),
   Payload("number", <<>>, FALSE), Payload("object", <<>>, FALSE),
   Payload("object", <<>>, TRUE)}

KnownActions(to) ==
  IF to = "background"
  THEN {"copyToClipboard", "elementSelected", "updateStats", "getSettings",
        "updateSettings"}
  ELSE IF to = "content-script.js"
  THEN {"extractTranslationData", "getPageContext", "activateElementPicker",
        "deactivateElementPicker", "selectPageElement"}
  ELSE {"getTranslations", "toggleElementPicker", "searchFromContextMenu",
        "ping", "debugInfo"}

\* the messages sent to a receiver: its actions, one it does not know, and
\* the message null
MessagePool(to) ==
  {Request(to, FALSE, a, p) :
     a \in KnownActions(to) \cup {"unknownAction"},
     p \in PayloadPool}
    \cup {Request(to, TRUE, "none", NoPayload)}

MessageWorlds == {NoContent, [NoContent EXCEPT !.nuxt = TwoRec]}
MessageLocations ==
  {[hostname |-> RootDomain,
    pathname |-> <<"/", "z", "h", "-", "t", "w">> \o ProductSegment \o <<"1">>],
   [hostname |-> <<"n", "o", "t">> \o RootDomain, pathname |-> <<"/">>]}
MessageScopes ==
  {GlobalScope(Null, Null), GlobalScope(NuxtWith(FallbackLanguage, OneRec), Null)}

InitMessages ==
  /\ receiver \in {"background", "content-script.js", "service-worker.js"}
  /\ request = NoRequest
  /\ answers = 0
  /\ reply = NoReply
  /\ handlerThrew = FALSE
  /\ chromeStorage = EmptyStorage
  /\ msgPc = "idle"
  /\ translationData \in IF receiver = "service-worker.js"
                         THEN PickerCachePool ELSE {NoData}
  /\ pageWorld = PageWorld(Null, Null, Null, Null)
  /\ contentWorld \in IF receiver = "service-worker.js"
                      THEN MessageWorlds ELSE {NoContent}
  /\ scripts = <<>>
  /\ domLoading = FALSE
  /\ msgQueue = <<>>
  /\ worldChanges = 0
  /\ passKinds = {}
  /\ lastResponse = NoResponse
  /\ location \in IF receiver = "content-script.js"
                  THEN MessageLocations
                  ELSE {[hostname |-> RootDomain, pathname |-> <<"/">>]}
  /\ pageContext = fromLocation(Str(location.hostname),
                                Str(location.pathname))
  /\ globalScope \in IF receiver = "content-script.js"
                     THEN MessageScopes ELSE {GlobalScope(Null, Null)}
  /\ lastExtractedData = NoData
  /\ extractResponse = NoExtractResponse
  /\ strategyOut = NoStrategy
  /\ locateOut = NoLocate
  /\ readFrom = NoRead
  /\ globalChanges = 0
  /\ failedBefore = FALSE
  /\ PickerIdle
  /\ FlatIdle /\ SearchIdle /\ ResultIdle /\ CtxIdle
  /\ TailIdle

\* what one delivery leaves in the observation variables
Delivered(req, handled) ==
  /\ request' = req
  /\ answers' = Len(handled.replies)
  /\ reply' = IF handled.replies = <<>> THEN NoReply
              ELSE handled.replies[Len(handled.replies)]
  /\ handlerThrew' = handled.threw
  /\ msgPc' = "handled"

\* chrome.runtime.onMessage of the background service
BackgroundReceives ==
  \E req \in MessagePool("background") :
    LET handled == backgroundHandleMessage(req, chromeStorage)
    IN /\ receiver = "background"
       /\ handled.state.stats.selections <= MaxSelections
       /\ Delivered(req, handled)
       /\ chromeStorage' = handled.state
       /\ UNCHANGED receiver
       /\ UNCHANGED <<cacheVars, flatVars, searchVars, resultVars, tailVars, ctxVars,
                      extractVars, pickerVars>>

\* chrome.runtime.onMessage of src/content/content-script.js; the listener
\* is registered once init() has analysed the page
ContentScriptReceives ==
  \E req \in MessagePool("content-script.js") :
    LET handled == contentHandleMessage(req, pageContext, globalScope,
                                        ContentState(lastExtractedData,
                                                     Picker))
    IN /\ receiver = "content-script.js"
       /\ ~pageContext.isNull
       /\ Delivered(req, handled)
       /\ lastExtractedData' = handled.state.cached
       /\ SetPicker(handled.state.picker)
       /\ UNCHANGED <<chromeStorage, receiver, lastEvent, picks>>
       /\ UNCHANGED <<location, pageContext, globalScope, extractResponse,
                      strategyOut, locateOut, readFrom, globalChanges,
                      failedBefore>>
       /\ UNCHANGED <<cacheVars, flatVars, searchVars, resultVars, tailVars, ctxVars>>

\* chrome.runtime.onMessage of the browser ContentScript
BrowserContentScriptReceives ==
  \E req \in MessagePool("service-worker.js") :
    LET handled == browserHandleMessage(req, contentWorld,
                                        BrowserState(translationData, Picker,
                                                     picks))
    IN /\ receiver = "service-worker.js"
       /\ Delivered(req, handled)
       /\ translationData' = handled.state.td
       /\ SetPicker(handled.state.picker)
       /\ picks' = handled.state.result
       /\ UNCHANGED <<chromeStorage, receiver, lastEvent>>
       /\ UNCHANGED <<pageWorld, contentWorld, scripts, domLoading, msgQueue,
                      worldChanges, passKinds, lastResponse>>
       /\ UNCHANGED <<flatVars, searchVars, resultVars, tailVars, ctxVars, extractVars>>

NextMessages ==
  \/ BackgroundReceives
  \/ ContentScriptReceives
  \/ BrowserContentScriptReceives

SpecMessages == InitMessages /\ [][NextMessages]_vars

(***************************************************************************)
(* Records and results held by reference                                   *)
(***************************************************************************)

FieldKeyPool == {Str(<<"k">>), Str(<<>>), Num}
FieldValPool == {Str(<<"a">>), Str(<<>>), Null}

InitRecords ==
  /\ heap = <<>>
  /\ issued = <<>>
  /\ NotRecordIdle

\* new TranslationEntry(key, val)
NewTranslationEntry ==
  \E k \in FieldKeyPool, v \in FieldValPool :
    /\ Len(heap) < MaxObjects
    /\ heap' = newTranslationEntry(heap, k, v)
    /\ UNCHANGED issued
    /\ UNCHANGED notRecordVars

\* new SearchResult(entry, score) with a valid score
NewSearchResultOf ==
  \E ref \in 1..Len(heap) :
    /\ Len(issued) < MaxIssued
    /\ issued' = newSearchResult(issued, heap, ref)
    /\ UNCHANGED heap
    /\ UNCHANGED notRecordVars

\* SearchResult.fromFuseResult({item: {key, val}}): the item is copied into
\* a TranslationEntry of its own
FromFuseResultOf ==
  \E k \in FieldKeyPool, v \in FieldValPool :
    /\ Len(heap) < MaxObjects
    /\ Len(issued) < MaxIssued
    /\ ~TranslationEntryThrows(k, v)
    /\ heap' = newTranslationEntry(heap, k, v)
    /\ issued' = newSearchResult(issued, heap', Len(heap'))
    /\ UNCHANGED notRecordVars

\* a holder of the record assigns to its key
AssignKey ==
  \E ref \in 1..Len(heap), value \in FieldKeyPool :
    /\ heap' = assignKey(heap, ref, value)
    /\ UNCHANGED issued
    /\ UNCHANGED notRecordVars

\* a holder of the record assigns to its val
AssignVal ==
  \E ref \in 1..Len(heap), value \in FieldValPool :
    /\ heap' = assignVal(heap, ref, value)
    /\ UNCHANGED issued
    /\ UNCHANGED notRecordVars

NextRecords ==
  \/ NewTranslationEntry
  \/ NewSearchResultOf
  \/ FromFuseResultOf
  \/ AssignKey
  \/ AssignVal

SpecRecords == InitRecords /\ [][NextRecords]_vars

(***************************************************************************)
(* Searches over lists longer than the default limits: every record        *)
(* carries the value that is searched for, so every call site ranks all of *)
(* them and only its limit decides how many it keeps                       *)
(***************************************************************************)
LongListLen == DefaultLimit + 1
MatchingRecords(n) == [i \in 1..n |-> Entry(<<"k">>, <<"a">>)]
LimitPool == {0, 1, ServiceDefaultLimit + 1}

InitLimit ==
  /\ query = <<"a">>
  /\ options \in {[limit |-> l, minRelevance |-> 0] : l \in LimitPool}
  /\ records \in {MatchingRecords(n) : n \in 0..LongListLen}
  /\ searchOut = Returned(<<>>)
  /\ searchPc = "ready"
  /\ CacheIdle /\ FlatIdle /\ ResultIdle /\ LaterIdle

\* window.ContentScriptAPI.searchTranslations(query, options)
ContentSearchAgain ==
  /\ searchPc # "content"
  /\ searchOut' = Returned(searchTranslations(Data(records), query,
                                              options.limit))
  /\ searchPc' = "content"
  /\ UNCHANGED <<query, options, records>>
  /\ UNCHANGED <<cacheVars, flatVars, resultVars, laterVars>>

\* the popup's searchService.search(query, options)
PopupSearchAgain ==
  /\ searchPc # "popup"
  /\ searchOut' = Returned(popupSearch(Data(records), query, options.limit))
  /\ searchPc' = "popup"
  /\ UNCHANGED <<query, options, records>>
  /\ UNCHANGED <<cacheVars, flatVars, resultVars, laterVars>>

\* SearchService.search(query, options); Fuse scores every record a perfect
\* match, the values being equal to the query
StrictSearchAgain ==
  /\ searchPc # "strict"
  /\ LET limit == IF options.limit # 0 THEN options.limit
                  ELSE ServiceDefaultLimit
         fuseResults ==
           slice(sortAscending(fuseHits(records,
                                        [i \in 1..Len(records) |-> 0], 1)),
                 limit)
     IN searchOut' = search(query, options, fuseResults)
  /\ searchPc' = "strict"
  /\ UNCHANGED <<query, options, records>>
  /\ UNCHANGED <<cacheVars, flatVars, resultVars, laterVars>>

NextLimit ==
  \/ ContentSearchAgain
  \/ PopupSearchAgain
  \/ StrictSearchAgain

SpecLimit == InitLimit /\ [][NextLimit]_vars

(***************************************************************************)
(* Clicks that select an element: the text each handler resolves           *)
(***************************************************************************)
Repeat(c, n) == [i \in 1..n |-> c]
TextContentPool ==
  {<<>>, <<" ">>, <<"a">>, <<" ", "a", " ">>, <<"a", " ", " ", "b">>,
   <<"a", "\t", " ", "b">>, Repeat("a", InnerTextThreshold + 1),
   Repeat("a", MaxTextLength), Repeat("a", MaxTextLength + 1),
   Repeat("a", MaxTextLength) \o <<" ", " ">> \o Repeat("b", 3)}
InnerTextPool ==
  {<<>>, <<"b">>, <<"b", " ", " ", "c">>, Repeat("b", MaxTextLength + 1)}

InitText ==
  /\ clicked \in {Element(n, t, i) :
                    n \in BOOLEAN, t \in TextContentPool, i \in InnerTextPool}
  /\ resolved = <<>>
  /\ textPc = "ready"
  /\ NotTextIdle

\* handleElementClick(element) of content-script.js resolving the text
ExtractTextFromElement ==
  /\ textPc = "ready"
  /\ resolved' = extractTextFromElement(clicked)
  /\ textPc' = "content-script.js"
  /\ UNCHANGED clicked
  /\ UNCHANGED notTextVars

\* handleClick(event) of the browser content script resolving the text; the
\* target of a click event is an element
HandleClickText ==
  /\ textPc = "ready"
  /\ ~clicked.isNull
  /\ resolved' = clickText(clicked)
  /\ textPc' = "service-worker.js"
  /\ UNCHANGED clicked
  /\ UNCHANGED notTextVars

NextText ==
  \/ ExtractTextFromElement
  \/ HandleClickText

SpecText == InitText /\ [][NextText]_vars

(***************************************************************************)
(* Walks over deeply nested values                                         *)
(***************************************************************************)
\* n objects around a leaf, each holding the next under the property a, the
\* outermost with a string beside it when wide
RECURSIVE Chain(_, _)
Chain(n, leaf) ==
  IF n = 0 THEN leaf ELSE Obj(<<P(ka, Chain(n - 1, leaf))>>)

Beside(n, leaf, wide) ==
  IF n > 0 /\ wide
  THEN Obj(<<P(ka, Chain(n - 1, leaf)), P(kb, Str(<<"y">>))>>)
  ELSE Chain(n, leaf)

DeepestChain == SanitizeMaxDepth + 3
NestedPool ==
  {Beside(n, leaf, wide) :
     n \in 0..DeepestChain,
     leaf \in {Str(<<"x">>), Num, Obj(<<>>),
               Arr(<<P(IndexName(0), Str(<<"x">>))>>)},
     wide \in BOOLEAN}

Walked(value, entries) == [value |-> value, entries |-> entries]

InitDepth ==
  /\ nested \in NestedPool
  /\ walked = Walked(Null, <<>>)
  /\ walkPc = "ready"
  /\ NotDepthIdle

\* the page script sanitizes what it extracted
SanitizeNested ==
  /\ walkPc = "ready"
  /\ walked' = Walked(sanitizeData(nested, SanitizeMaxDepth, 0), <<>>)
  /\ walkPc' = "sanitized"
  /\ UNCHANGED nested
  /\ UNCHANGED notDepthVars

\* the browser content script flattens a value
FlattenNested ==
  /\ walkPc = "ready"
  /\ walked' = Walked(Null, flattenTranslationData(nested))
  /\ walkPc' = "flattened"
  /\ UNCHANGED nested
  /\ UNCHANGED notDepthVars

NextDepth ==
  \/ SanitizeNested
  \/ FlattenNested

SpecDepth == InitDepth /\ [][NextDepth]_vars

(***************************************************************************)
(* One page with the picker of either script: requests from the popup and  *)
(* document events                                                         *)
(***************************************************************************)
CsPicker ==
  ContentPicker(isElementPickerActive, documentListeners,
                elementPickerCleanup, currentHighlighted, marked, overlay)

SetCsPicker(st) ==
  /\ isElementPickerActive' = st.active
  /\ documentListeners' = st.listeners
  /\ elementPickerCleanup' = st.cleanup
  /\ currentHighlighted' = st.highlighted
  /\ marked' = st.marked
  /\ overlay' = st.overlay

Registered(type) == \E l \in documentListeners : l.type = type

DomEvent(type, key, target) ==
  [type |-> type, key |-> key, target |-> target,
   active |-> isElementPickerActive]

ElementOf(target) == Element(FALSE, ElementText(target), ElementText(target))

InitPickers ==
  /\ pickerScript \in {"service-worker.js", "content-script.js"}
  /\ translationData \in
       IF pickerScript = "service-worker.js" THEN PickerCachePool
       ELSE {NoData}
  /\ pageWorld = PageWorld(Null, Null, Null, Null)
  /\ contentWorld = NoContent
  /\ scripts = <<>>
  /\ domLoading = FALSE
  /\ msgQueue = <<>>
  /\ worldChanges = 0
  /\ passKinds = {}
  /\ lastResponse = NoResponse
  /\ PickerIdle
  /\ isElementPickerActive = FALSE
  /\ documentListeners = {}
  /\ elementPickerCleanup = NoClosure
  /\ currentHighlighted = NoElement
  /\ marked = {}
  /\ overlay = FALSE
  /\ selectionResult = NoSelection
  /\ domEvent = NoEvent
  /\ FlatIdle /\ SearchIdle /\ ResultIdle
  /\ CtxIdle /\ ExtractIdle /\ MsgIdle
  /\ RecordIdle /\ TextIdle /\ DepthIdle /\ InstIdle /\ DebIdle /\ StatIdle

\* the browser content script's picker
BrowserToggles == pickerScript = "service-worker.js" /\ ToggleElementPicker
BrowserMouseOver == pickerScript = "service-worker.js" /\ MouseOver
BrowserMouseOut == pickerScript = "service-worker.js" /\ MouseOut
BrowserClick == pickerScript = "service-worker.js" /\ Click
BrowserKeyDown == pickerScript = "service-worker.js" /\ KeyDown
BrowserNotificationRemoved ==
  pickerScript = "service-worker.js" /\ NotificationRemoved

\* runtime message 'activateElementPicker' to content-script.js
ActivateElementPicker ==
  /\ pickerScript = "content-script.js"
  /\ SetCsPicker(csActivateElementPicker(CsPicker))
  /\ domEvent' = DomEvent("activateElementPicker", "none", NoElement)
  /\ UNCHANGED <<pickerScript, selectionResult>>
  /\ UNCHANGED notCpickVars

\* runtime message 'deactivateElementPicker'
DeactivateElementPicker ==
  /\ pickerScript = "content-script.js"
  /\ SetCsPicker(csDeactivateElementPicker(CsPicker))
  /\ domEvent' = DomEvent("deactivateElementPicker", "none", NoElement)
  /\ UNCHANGED <<pickerScript, selectionResult>>
  /\ UNCHANGED notCpickVars

\* a 'click' event on the document: the handler runs while registered
ElementClick ==
  \E target \in Elements :
    /\ pickerScript = "content-script.js"
    /\ LET after == IF Registered("click")
                    THEN clickHandler(CsPicker, ElementOf(target),
                                      selectionResult)
                    ELSE [st |-> CsPicker, result |-> selectionResult]
       IN /\ SetCsPicker(after.st)
          /\ selectionResult' = after.result
    /\ domEvent' = DomEvent("click", "none", target)
    /\ UNCHANGED pickerScript
    /\ UNCHANGED notCpickVars

ElementKeyDown ==
  \E key \in {"Escape", "Enter"} :
    /\ pickerScript = "content-script.js"
    /\ SetCsPicker(IF Registered("keydown")
                   THEN keyHandler(CsPicker, key) ELSE CsPicker)
    /\ domEvent' = DomEvent("keydown", key, NoElement)
    /\ UNCHANGED <<pickerScript, selectionResult>>
    /\ UNCHANGED notCpickVars

ElementMouseOver ==
  \E target \in Elements :
    /\ pickerScript = "content-script.js"
    /\ SetCsPicker(IF Registered("mouseover")
                   THEN mouseoverHandler(CsPicker, target) ELSE CsPicker)
    /\ domEvent' = DomEvent("mouseover", "none", target)
    /\ UNCHANGED <<pickerScript, selectionResult>>
    /\ UNCHANGED notCpickVars

ElementMouseOut ==
  \E target \in Elements :
    /\ pickerScript = "content-script.js"
    /\ SetCsPicker(IF Registered("mouseout")
                   THEN mouseoutHandler(CsPicker) ELSE CsPicker)
    /\ domEvent' = DomEvent("mouseout", "none", target)
    /\ UNCHANGED <<pickerScript, selectionResult>>
    /\ UNCHANGED notCpickVars

NextPickers ==
  \/ BrowserToggles
  \/ BrowserMouseOver
  \/ BrowserMouseOut
  \/ BrowserClick
  \/ BrowserKeyDown
  \/ BrowserNotificationRemoved
  \/ ActivateElementPicker
  \/ DeactivateElementPicker
  \/ ElementClick
  \/ ElementKeyDown
  \/ ElementMouseOver
  \/ ElementMouseOut

SpecPickers == InitPickers /\ [][NextPickers]_vars

(***************************************************************************)
(* Popup openings and context-menu searches on one tab.  Each runs in its  *)
(* own process (the popup page, the service worker) and gives way at every *)
(* await: after the ping, after executeScript and before the message it    *)
(* sends at the end                                                        *)
(***************************************************************************)
Opening(kind, pc) == [kind |-> kind, pc |-> pc]
Dispatched(action, handlers) == [action |-> action, handlers |-> handlers]

InitInstances ==
  /\ instances \in {0, 1}
  /\ openings = <<>>
  /\ dispatched = Dispatched("none", 0)
  /\ NotInstIdle

\* the popup is opened: PopupController.loadTranslations() starts
PopupOpens ==
  /\ Len(openings) < MaxOpenings
  /\ openings' = Append(openings, Opening("popup", "ping"))
  /\ UNCHANGED <<instances, dispatched>>
  /\ UNCHANGED notInstVars

\* the context-menu item is clicked: handleContextMenuSearch(text, tab)
ContextMenuClicked ==
  /\ Len(openings) < MaxOpenings
  /\ openings' = Append(openings, Opening("contextMenu", "ping"))
  /\ UNCHANGED <<instances, dispatched>>
  /\ UNCHANGED notInstVars

\* the answer to { action: 'ping' } arrives: an error when the tab has no
\* listener, and then the script is to be injected
PingAnswered ==
  \E i \in 1..Len(openings) :
    /\ openings[i].pc = "ping"
    /\ openings' = [openings EXCEPT ![i].pc = IF instances = 0 THEN "inject"
                                              ELSE "send"]
    /\ dispatched' = Dispatched("ping", instances)
    /\ UNCHANGED instances
    /\ UNCHANGED notInstVars

\* chrome.scripting.executeScript runs content-script-browser.js in the tab:
\* new ContentScript()
ScriptInjected ==
  \E i \in 1..Len(openings) :
    /\ openings[i].pc = "inject"
    /\ instances' = instances + 1
    /\ openings' = [openings EXCEPT ![i].pc = "send"]
    /\ UNCHANGED dispatched
    /\ UNCHANGED notInstVars

\* the message the opening was for: 'getTranslations' from the popup,
\* 'searchFromContextMenu' from the service worker; every instance in the
\* tab has a listener that handles it
MessageSent ==
  \E i \in 1..Len(openings) :
    /\ openings[i].pc = "send"
    /\ openings' = [openings EXCEPT ![i].pc = "done"]
    /\ dispatched' = Dispatched(IF openings[i].kind = "popup"
                                THEN "getTranslations"
                                ELSE "searchFromContextMenu", instances)
    /\ UNCHANGED instances
    /\ UNCHANGED notInstVars

NextInstances ==
  \/ PopupOpens
  \/ ContextMenuClicked
  \/ PingAnswered
  \/ ScriptInjected
  \/ MessageSent

SpecInstances == InitInstances /\ [][NextInstances]_vars

(***************************************************************************)
(* Typing in the popup's search box                                        *)
(***************************************************************************)
\* the clock advances by a third of the debounce delay
Tick == DebounceDelay \div 3

TypedPool == {<<>>, <<"a">>, <<"a", "b">>}

SearchCall(value, typed, by, outcome) ==
  [value |-> value, at |-> clock, typedAt |-> lastInputAt, typed |-> typed,
   by |-> by, outcome |-> outcome]

InitDebounce ==
  /\ clock = 0
  /\ inputValue = <<>>
  /\ lastInputAt = 0 - 1
  /\ pendingTimers = {}
  /\ debounceTimer = NoTimer
  /\ hasData \in BOOLEAN
  /\ searches = <<>>
  /\ resultsCleared = 0
  /\ NotDebIdle

\* an 'input' event of the search box
InputEvent ==
  \E value \in TypedPool :
    /\ value # inputValue
    /\ LET st == handleSearchInput(Debounce(pendingTimers, debounceTimer),
                                   value, clock)
       IN /\ pendingTimers' = st.timers
          /\ debounceTimer' = st.debounceTimer
    /\ inputValue' = value
    /\ lastInputAt' = clock
    /\ UNCHANGED <<clock, hasData, searches, resultsCleared>>
    /\ UNCHANGED notDebVars

\* a pending timer is due: its callback runs
TimerFires ==
  \E t \in pendingTimers :
    /\ t.due = clock
    /\ pendingTimers' = pendingTimers \ {t}
    /\ LET does == debounceCallback(t.value)
       IN /\ does = "performSearch" => Len(searches) < MaxSearches
          /\ searches' =
               IF does = "performSearch"
               THEN Append(searches,
                           SearchCall(t.value, inputValue, "timer",
                                      performSearch(t.value, inputValue,
                                                    hasData)))
               ELSE searches
          /\ resultsCleared' = IF does = "clearResults" THEN 1
                               ELSE resultsCleared
    /\ UNCHANGED <<clock, inputValue, lastInputAt, debounceTimer, hasData>>
    /\ UNCHANGED notDebVars

\* Enter in the search box or a click on the search button: performSearch()
SearchRequested ==
  /\ Len(searches) < MaxSearches
  /\ searches' = Append(searches,
                        SearchCall(inputValue, inputValue, "request",
                                   performSearch(<<>>, inputValue, hasData)))
  /\ UNCHANGED <<clock, inputValue, lastInputAt, pendingTimers, debounceTimer,
                 hasData, resultsCleared>>
  /\ UNCHANGED notDebVars

\* time passes; a timer that is due runs before the clock moves on
TimePasses ==
  /\ clock < MaxTicks * Tick
  /\ \A t \in pendingTimers : t.due > clock
  /\ clock' = clock + Tick
  /\ UNCHANGED <<inputValue, lastInputAt, pendingTimers, debounceTimer,
                 hasData, searches, resultsCleared>>
  /\ UNCHANGED notDebVars

NextDebounce ==
  \/ InputEvent
  \/ TimerFires
  \/ SearchRequested
  \/ TimePasses

SpecDebounce == InitDebounce /\ [][NextDebounce]_vars

(***************************************************************************)
(* Usage statistics: incrementStat and updateStats read chrome.storage     *)
(* with a callback and write from inside the callback; the storage reads   *)
(* of calls in progress and their callbacks interleave                     *)
(***************************************************************************)
StatCall(kind, pc, snapshot) == [kind |-> kind, pc |-> pc, snapshot |-> snapshot]

otherVars == <<request, answers, reply, handlerThrew, msgPc, receiver>>

InitStats ==
  /\ chromeStorage = EmptyStorage
  /\ statCalls = <<>>
  /\ request = NoRequest
  /\ answers = <<>>
  /\ reply = NoReply
  /\ handlerThrew = FALSE
  /\ msgPc = "idle"
  /\ receiver = "none"
  /\ CacheIdle /\ FlatIdle /\ SearchIdle /\ ResultIdle
  /\ CtxIdle /\ ExtractIdle /\ PickerIdle
  /\ RecordIdle /\ TextIdle /\ DepthIdle /\ CpickIdle /\ InstIdle /\ DebIdle

StatsUnchanged ==
  /\ UNCHANGED otherVars
  /\ UNCHANGED <<cacheVars, flatVars, searchVars, resultVars, ctxVars,
                 extractVars, pickerVars>>
  /\ UNCHANGED <<recordVars, textVars, depthVars, cpickVars, instVars,
                 debVars>>

\* incrementStat('totalElementSelections') is called: chrome.storage.local.get
\* is issued
IncrementStatCalled ==
  /\ Len(statCalls) < MaxCalls
  /\ statCalls' = Append(statCalls, StatCall("incrementStat", "get",
                                             EmptyStorage))
  /\ UNCHANGED chromeStorage
  /\ StatsUnchanged

\* updateStats(newStats) is called with an object of other statistics
UpdateStatsCalled ==
  /\ Len(statCalls) < MaxCalls
  /\ statCalls' = Append(statCalls, StatCall("updateStats", "get",
                                             EmptyStorage))
  /\ UNCHANGED chromeStorage
  /\ StatsUnchanged

\* the storage serves a get: the result is what is stored at that moment
StorageRead ==
  \E i \in 1..Len(statCalls) :
    /\ statCalls[i].pc = "get"
    /\ statCalls' = [statCalls EXCEPT ![i] =
                       StatCall(@.kind, "callback", chromeStorage)]
    /\ UNCHANGED chromeStorage
    /\ StatsUnchanged

\* the callback of a get runs: it computes the new statistics from its
\* result and stores them
StorageCallback ==
  \E i \in 1..Len(statCalls) :
    /\ statCalls[i].pc = "callback"
    /\ chromeStorage' =
         [chromeStorage EXCEPT !.stats =
            IF statCalls[i].kind = "incrementStat"
            THEN incrementStat(statCalls[i].snapshot).stats
            ELSE updateStats(statCalls[i].snapshot,
                             Payload("object", <<>>, FALSE)).stats]
    /\ statCalls' = [statCalls EXCEPT ![i].pc = "done"]
    /\ StatsUnchanged

NextStats ==
  \/ IncrementStatCalled
  \/ UpdateStatsCalled
  \/ StorageRead
  \/ StorageCallback

SpecStats == InitStats /\ [][NextStats]_vars

(***************************************************************************)
(* Properties                                                              *)
(***************************************************************************)

\* C1: once the cached translation list is non-empty, no step of the content
\* script (page-script message, mutation-observer or popup/context-menu
\* re-extraction) leaves it empty.
C1_NonEmptyCacheNeverEmptied ==
  [][~IsEmpty(translationData) => ~IsEmpty(translationData')]_vars

\* C2: once one extraction pass has produced an empty list and another a
\* non-empty list, the cache holds a non-empty list, whichever completed
\* first.
C2_EmptyAndNonEmptyPassLeaveData ==
  passKinds = {"empty", "nonempty"} => ~IsEmpty(translationData)

\* C3: a non-empty cached list is not replaced by another non-empty list of a
\* later pass: the first non-empty result stays cached.
C3_FirstNonEmptyResultStays ==
  [][(~IsEmpty(translationData) /\ ~IsEmpty(translationData'))
       => translationData' = translationData]_vars

\* C4: every SearchResult that comes out of the constructor or of the
\* conversion from a library result has a score s with 0 <= s <= 1.
InUnitRange(x) == x.t = "number" /\ ~x.nan /\ 0 <= x.n /\ x.n <= 10

C4_ScoreWithinUnitRange ==
  (resultPc \in {"constructed", "converted"} /\ resultOut.ok)
    => InUnitRange(resultOut.score)

\* the score, in tenths, of the i-th result of the finished search call
ResultScore(i) ==
  IF searchPc \in {"strict", "smart"}
  THEN searchOut.results[i].score.n
  ELSE searchOut.results[i].score

\* C5: the result list of every search entry point is sorted ascending by
\* score: results[i].score <= results[i+1].score.
C5_ResultsAscendingByScore ==
  (searchPc \in {"content", "popup", "strict", "smart"}
     /\ searchOut.kind = "results")
    => \A i \in 1..(Len(searchOut.results) - 1) :
         ResultScore(i) <= ResultScore(i + 1)

\* the score the tier table of the claim gives a record: 0.0 exact, 0.2
\* prefix, 0.4 both fields contain, 0.6 one field contains, else no result
ClaimedScore(entry, normalizedQuery) ==
  LET key == toLowerCase(entry.key)
      val == toLowerCase(entry.val)
  IN IF key = normalizedQuery \/ val = normalizedQuery THEN 0
     ELSE IF startsWith(key, normalizedQuery)
             \/ startsWith(val, normalizedQuery) THEN 2
     ELSE IF includes(key, normalizedQuery) /\ includes(val, normalizedQuery)
          THEN 4
     ELSE IF includes(key, normalizedQuery) \/ includes(val, normalizedQuery)
          THEN 6
     ELSE NoMatch

\* C6: the tiered scorer returns exactly the records that contain the query
\* in key or value, each with the score of the best tier it satisfies
\* (0.0 / 0.2 / 0.4 / 0.6).
C6_TierScores ==
  (searchPc \in {"content", "popup"} /\ query # <<>> /\ options.limit = 0)
    => LET q == trim(toLowerCase(query))
       IN /\ \A i \in 1..Len(searchOut.results) :
               searchOut.results[i].score
                 = ClaimedScore(searchOut.results[i].item, q)
          /\ \A j \in 1..Len(records) :
               (ClaimedScore(records[j], q) = NoMatch)
                 <=> ~(\E i \in 1..Len(searchOut.results) :
                         searchOut.results[i].item = records[j])

\* C7: for an empty or whitespace-only query the strict search rejects and
\* never returns a list, and smartSearch returns the empty list.
C7_BlankQueryRejectedOrEmpty ==
  (trim(query) = <<>>)
    => /\ searchPc = "strict" => searchOut.kind = "error"
       /\ searchPc = "smart" => searchOut = Returned(<<>>)

\* trim, collapse whitespace runs, lowercase
Normalized(str) == toLowerCase(collapseSpaces(trim(str)))

\* the tier a record lands in for a query: its score, or NoMatch
TierOf(entry, q) ==
  LET found == searchTranslations(Data(<<entry>>), q, 0)
  IN IF found = <<>> THEN NoMatch ELSE found[1].score

\* C8: a record and a query land in the same tier as any other record and
\* query that are equal to them after trim, whitespace-collapse and
\* lowercase.
C8_NormalizedInputsSameTier ==
  (searchPc = "content")
    => \A j \in 1..Len(records) : \A other \in RecordPool, q \in QueryPool :
         (/\ Normalized(other.key) = Normalized(records[j].key)
          /\ Normalized(other.val) = Normalized(records[j].val)
          /\ Normalized(q) = Normalized(query)
          /\ Normalized(q) # <<>>)
           => TierOf(other, q) = TierOf(records[j], query)

\* the dot-joined path of property names
RECURSIVE DotJoin(_)
DotJoin(names) ==
  IF Len(names) = 1 THEN names[1]
  ELSE names[1] \o <<".">> \o DotJoin(Tail(names))

\* one record per non-empty string leaf reachable through nested plain
\* objects, in enumeration order
RECURSIVE StringLeaves(_, _)
StringLeaves(props, path) ==
  IF props = <<>> THEN <<>>
  ELSE LET here == Append(path, Head(props).k)
           value == Head(props).v
       IN (IF value.t = "string" /\ value.s # <<>>
           THEN <<Entry(DotJoin(here), value.s)>>
           ELSE IF value.t = "object" THEN StringLeaves(value.props, here)
           ELSE <<>>)
          \o StringLeaves(Tail(props), path)

\* the records of a list whose value is not the empty string
RECURSIVE WithValue(_)
WithValue(list) ==
  IF list = <<>> THEN <<>>
  ELSE (IF Head(list).val # <<>> THEN <<Head(list)>> ELSE <<>>)
       \o WithValue(Tail(list))

\* C9: flattening emits exactly one record per string leaf reachable through
\* nested plain objects, keyed by the dot-joined path, in enumeration order;
\* other values give no record and arrays are not descended into.  (Leaves
\* equal to the empty string are the subject of C10 and are left out of the
\* comparison here.)
C9_OneRecordPerStringLeaf ==
  (flatPc \in {"flattened", "converted"})
    => WithValue(flatOut)
         = (IF flatIn.t = "object" THEN StringLeaves(flatIn.props, <<>>)
            ELSE <<>>)

\* C10: no record of a flattening result has the empty string as its value.
C10_NoEmptyValueEmitted ==
  (flatPc \in {"flattened", "converted"})
    => \A i \in 1..Len(flatOut) : flatOut[i].val # <<>>

\* the containers the two routes are associated with
ExpectedContainer(ctx) ==
  IF ctx.isProductPage THEN ReadNuxt(i18nKey(ctx.language)) ELSE ReadInitState

LabelOf(container) ==
  IF container = ReadInitState THEN InitStatePath
  ELSE NuxtPathHead \o container.child \o NuxtPathTail

\* C11: on the target domain an extraction takes its data from
\* __NUXT__.state['$si18n_{lang}'] exactly when the path is a detail route and
\* from __INIT_STATE__.lang otherwise, and the dataSource of a successful
\* response names the container that was read.
C11_RouteSelectsContainer ==
  (readFrom.by # "none" /\ pageContext.isKKdayDomain
     /\ readFrom.container # ReadNothing)
    => /\ readFrom.container = ExpectedContainer(pageContext)
       /\ extractResponse.success
            => extractResponse.dataSource = LabelOf(readFrom.container)

\* the truthy values found at a strategy's location
NuxtDicts(scope, language) ==
  {scope.nuxt.props[i].v.props[j].v :
     <<i, j>> \in {<<a, b>> \in (1..Len(scope.nuxt.props)) \X (1..2) :
                     /\ scope.nuxt.t = "object"
                     /\ scope.nuxt.props[a].k = StateName
                     /\ scope.nuxt.props[a].v.t = "object"
                     /\ b <= Len(scope.nuxt.props[a].v.props)
                     /\ scope.nuxt.props[a].v.props[b].k = i18nKey(language)
                     /\ Truthy(scope.nuxt.props[a].v.props[b].v)}}
InitStateDicts(scope) ==
  {scope.initState.props[i].v :
     i \in {a \in 1..Len(scope.initState.props) :
              /\ scope.initState.t = "object"
              /\ scope.initState.props[a].k = LangName
              /\ Truthy(scope.initState.props[a].v)}}

\* a dictionary with at least one record the converter keeps at top level
Usable(dict) ==
  /\ dict.t = "object"
  /\ \E i \in 1..Len(dict.props) :
       /\ dict.props[i].k # <<>>
       /\ dict.props[i].v.t = "string"
       /\ \E c \in 1..Len(dict.props[i].v.s) :
            dict.props[i].v.s[c] \notin WhiteSpace

PrimaryDicts(ctx, scope) ==
  IF ctx.isProductPage THEN NuxtDicts(scope, ctx.language)
  ELSE InitStateDicts(scope)
AlternateDicts(ctx, scope) ==
  IF ctx.isProductPage THEN InitStateDicts(scope)
  ELSE NuxtDicts(scope, ctx.language)

Requested == extractResponse # NoExtractResponse

\* C12: when the dictionary is absent at the location the route selects, the
\* alternate location is tried before the request fails: a request on the
\* target domain whose alternate location holds a usable dictionary succeeds,
\* and a failure carries one error.
C12_AlternateTriedBeforeFailing ==
  (Requested /\ pageContext.isKKdayDomain)
    => /\ (PrimaryDicts(pageContext, globalScope) = {}
           /\ \E d \in AlternateDicts(pageContext, globalScope) : Usable(d))
            => extractResponse.success
       /\ ~extractResponse.success => extractResponse.error # <<>>

LocatedDicts ==
  IF locateOut.kind = "nuxt" THEN NuxtDicts(globalScope, pageContext.language)
  ELSE InitStateDicts(globalScope)

C14_NothingOffTargetDomain ==
  (~pageContext.isNull /\ ~pageContext.isKKdayDomain)
    => /\ strategyOut.kind # "none" => strategyOut.threw
       /\ Requested => /\ ~extractResponse.success
                       /\ "data" \notin extractResponse.fields
                       /\ extractResponse.error # <<>>

C14_Witness ==
  /\ ~pageContext.isNull /\ ~pageContext.isKKdayDomain
  /\ strategyOut.kind = "path" /\ strategyOut.threw

SameIgnoringCase(a, b) ==
  Len(a) = Len(b) /\ \A i \in 1..Len(a) : Lower(a[i]) = Lower(b[i])

TargetDomain(d) ==
  /\ d.t = "string"
  /\ \/ SameIgnoringCase(d.s, RootDomain)
     \/ \E k \in 1..Len(d.s) :
          SameIgnoringCase(SubSeq(d.s, k, Len(d.s)), <<".">> \o RootDomain)

\* C15: isKKdayDomain(d) is true exactly when d, letter case ignored, is
\* 'kkday.com' or ends with '.kkday.com', and d and lowercase(d) get the same
\* answer.
C15_TargetDomainIffRootOrSubdomain ==
  ctxPc = "isKKdayDomain"
    => /\ ctxOut.flag = TargetDomain(ctxDomain)
       /\ ctxDomain.t = "string"
            => ctxOut.flag = isKKdayDomain(Str(toLowerCase(ctxDomain.s)))

C15_Witness ==
  /\ ctxPc = "isKKdayDomain" /\ ctxOut.flag
  /\ ctxDomain.s # toLowerCase(ctxDomain.s)
  /\ Len(ctxDomain.s) > Len(RootDomain)

LangShape(c) ==
  \/ Len(c) = 2 /\ IsLetter(c[1]) /\ IsLetter(c[2])
  \/ /\ Len(c) = 5 /\ IsLetter(c[1]) /\ IsLetter(c[2]) /\ c[3] = "-"
     /\ IsLetter(c[4]) /\ IsLetter(c[5])

DetailRoute(p) ==
  /\ p.t = "string"
  /\ \E l \in {2, 5} :
       LET idStart == l + Len(ProductSegment) + 2
       IN /\ Len(p.s) >= idStart
          /\ p.s[1] = "/"
          /\ LangShape(SubSeq(p.s, 2, l + 1))
          /\ SameIgnoringCase(SubSeq(p.s, l + 2, idStart - 1), ProductSegment)
          /\ \E n \in 1..(Len(p.s) - idStart + 1) :
               \A i \in idStart..(idStart + n - 1) : IsDigit(p.s[i])

StrategyDetail == <<"d", "e", "t", "a", "i", "l">>
StrategyGeneral == <<"g", "e", "n", "e", "r", "a", "l">>

ResponseShape(strategies) ==
  Requested
    => \/ /\ extractResponse.success
          /\ extractResponse.fields
               = {"success", "data", "dataSource", "strategy", "count"}
          /\ \A i \in 1..Len(extractResponse.data) :
               /\ extractResponse.data[i].key \in Seq(STRING)
               /\ extractResponse.data[i].val \in Seq(STRING)
          /\ extractResponse.dataSource # <<>>
          /\ extractResponse.strategy \in strategies
          /\ extractResponse.count = Len(extractResponse.data)
       \/ /\ ~extractResponse.success
          /\ extractResponse.fields = {"success", "error"}
          /\ extractResponse.error # <<>>

\* C17 as stated: every extractTranslationData response is a success with
\* data, dataSource, a strategy 'detail' or 'general' and count =
\* data.length, or a failure with an error and no data.
C17_ResponseShapeDetailGeneral ==
  ResponseShape({StrategyDetail, StrategyGeneral})

\* C17, amended: the same two shapes, the strategy of a success being 'nuxt'
\* (detail route) or 'init_state' (any other route).
C17_ResponseShapeNuxtInitState ==
  /\ ResponseShape({StrategyNuxt, StrategyInitState})
  /\ (Requested /\ extractResponse.success)
       => (extractResponse.strategy = StrategyNuxt
             <=> pageContext.isProductPage)

C17_Witness ==
  /\ Requested /\ extractResponse.success
  /\ extractResponse.strategy = StrategyNuxt
  /\ extractResponse.count = 1
  /\ Mixed \in NuxtDicts(globalScope, pageContext.language)

\* C18: a failed attempt leaves no sticky state: a page-script pass that
\* yields no record leaves the records already cached as they were.
C18_FailedPassKeepsCache ==
  [][(/\ msgQueue # <<>>
      /\ msgQueue' = Tail(msgQueue)
      /\ flattenTranslationData(Head(msgQueue)) = <<>>
      /\ ~IsEmpty(translationData))
       => translationData' = translationData]_vars

\* C19: once an Escape key press that arrived while the picker was active
\* has been handled, the picker is inactive, its click, keydown, mouseover
\* and mouseout listeners are removed and no element is highlighted.
C19_EscapeDeactivatesPicker ==
  (lastEvent.type = "keydown" /\ lastEvent.key = "Escape" /\ lastEvent.active)
    => /\ ~pickerActive
       /\ listeners \cap PickerListeners = {}
       /\ highlights = {}
       /\ highlightedElement = NoElement

C19_Witness ==
  /\ lastEvent.type = "keydown" /\ lastEvent.key = "Escape"
  /\ lastEvent.active
  /\ ~pickerActive
  /\ notification = "fading"

Unrecognised(req) == ~req.isNull /\ req.action \notin KnownActions(req.to)

\* C20: every message the background service or a content script receives
\* is answered exactly once, whatever its action and whether or not the
\* handler throws, and a message with an unrecognised action is answered
\* with {success: false, error} and changes no state.
C20_EveryMessageAnsweredOnce ==
  [][/\ answers' = 1
     /\ Unrecognised(request')
          => /\ reply'.success = "false"
             /\ reply'.error # <<>>
             /\ UNCHANGED <<chromeStorage, translationData,
                            lastExtractedData, pickerVars>>]_vars

\* C21: the key and the value of a TranslationEntry never change after
\* construction, and the record a SearchResult holds keeps the key and the
\* value it had when the result was created.
C21_RecordsNeverChange ==
  [][/\ \A ref \in 1..Len(heap) : heap'[ref] = heap[ref]
     /\ \A r \in 1..Len(issued') :
          /\ heap'[issued'[r].item].key = issued'[r].key
          /\ heap'[issued'[r].item].val = issued'[r].val]_vars

\* C22: a search never returns more results than the effective limit, which
\* is options.limit when it is given and otherwise one default shared by
\* every call site: without options.limit two call sites searching the same
\* records for the same query keep the same number of results.
C22_OneEffectiveLimit ==
  [][searchPc' # "ready" =>
       /\ searchOut'.kind = "results"
       /\ options.limit # 0 => Len(searchOut'.results) <= options.limit
       /\ (options.limit = 0 /\ searchPc # "ready") =>
            Len(searchOut'.results) = Len(searchOut.results)]_vars

\* C23: the text resolved from a selected element is trimmed, has no run of
\* whitespace left, and is at most 200 characters followed by the ellipsis
\* marker long; an element without text resolves to the empty string.
C23_ResolvedTextNormalisedAndBounded ==
  textPc \in {"content-script.js", "service-worker.js"} =>
    /\ resolved = trim(resolved)
    /\ \A i \in 1..Len(resolved) :
         resolved[i] \in WhiteSpace =>
           /\ resolved[i] = " "
           /\ i < Len(resolved) => resolved[i + 1] \notin WhiteSpace
    /\ Len(resolved) <= MaxTextLength + Len(Ellipsis)
    /\ Len(resolved) > MaxTextLength =>
         SubSeq(resolved, MaxTextLength + 1, Len(resolved)) = Ellipsis
    /\ (clicked.isNull \/ trim(clicked.textContent) = <<>>) => resolved = <<>>

\* C24: one page load gets one immediate extraction and exactly one delayed
\* one: a delayed pass never runs once a delayed pass has already run on the
\* page, so at most one delayed data message is posted.
C24_OneDelayedPassPerPage ==
  [][\A i \in 1..Len(scripts) :
       (scripts[i] = "ran" /\ scripts'[i] = "done") =>
         \A j \in 1..Len(scripts) : scripts[j] # "done"]_vars

\* C25: sanitizing and flattening stop descending below the maximum depth:
\* the sanitized copy has no object nested deeper than the maximum allows,
\* and no flattened entry has a key with more segments than that, whatever
\* is nested below being dropped.
RECURSIVE NestingOf(_)
NestingOf(value) ==
  IF ~TypeofObject(value) \/ value.t = "null" THEN 0
  ELSE 1 + (IF value.props = <<>> THEN 0
            ELSE LET deepest == CHOOSE i \in 1..Len(value.props) :
                       \A j \in 1..Len(value.props) :
                         NestingOf(value.props[j].v)
                           <= NestingOf(value.props[i].v)
                 IN NestingOf(value.props[deepest].v))

Segments(key) == 1 + Cardinality({i \in 1..Len(key) : key[i] = "."})

C25_WalksStopAtMaxDepth ==
  /\ walkPc = "sanitized" => NestingOf(walked.value) <= SanitizeMaxDepth + 1
  /\ walkPc = "flattened" =>
       \A i \in 1..Len(walked.entries) :
         Segments(walked.entries[i].key) <= SanitizeMaxDepth + 1

\* C26: the picker's click, keydown, mouseover and mouseout listeners are on
\* the document exactly while the picker is active, and no more than one
\* listener of each kind is registered.
C26_ListenersIffActive ==
  /\ pickerActive => listeners = PickerListeners
  /\ ~pickerActive => listeners = {}
  /\ \A type \in PickerListeners :
       Cardinality({l \in documentListeners : l.type = type})
         = IF isElementPickerActive THEN 1 ELSE 0

C26_Witness ==
  /\ pickerScript = "content-script.js"
  /\ domEvent.type = "activateElementPicker"
  /\ domEvent.active
  /\ isElementPickerActive
  /\ currentHighlighted # NoElement

\* C27: a click on a page element other than the picker's notification,
\* arriving while the picker is active, leaves the picker inactive, whether
\* or not the element has text or a translation matches.
C27_EveryClickEndsPicking ==
  /\ (lastEvent.type = "click" /\ lastEvent.active
      /\ lastEvent.target # NotificationElement) => ~pickerActive
  /\ (domEvent.type = "click" /\ domEvent.active) => ~isElementPickerActive

\* C28: a page never holds more than one live content-script instance, and
\* the message an opening sends once a script is in place is handled by
\* exactly one instance.
C28_OneInstancePerPage ==
  /\ instances <= 1
  /\ dispatched.action \in {"getTranslations", "searchFromContextMenu"} =>
       dispatched.handlers = 1

\* C29: input events are debounced.  Every performSearch call the debounce
\* timer makes comes 300 ms after the latest input event, is for the value
\* that event typed, and that value has at least 2 characters; no two such
\* calls belong to the same input event; and once 300 ms have passed since
\* the latest input event, the call for its value has been made if the
\* value has at least 2 characters.
TimerCalls == {i \in 1..Len(searches) : searches[i].by = "timer"}

C30_NoLostIncrement ==
  (\A i \in 1..Len(statCalls) : statCalls[i].pc = "done") =>
    chromeStorage.stats.selections
      = Cardinality({i \in 1..Len(statCalls) :
                       statCalls[i].kind = "incrementStat"})

====
